---------------------------- MODULE Spec2Model ----------------------------
(***************************************************************************)
(* A model of the ai-wow command line tool: the sync engine that           *)
(* aggregates the .ai/ source tree into the .github/ and .claude/ output   *)
(* trees (commands/sync.py), the upward search for the source root         *)
(* (utils/paths.py), the structural validator (commands/validate.py), the  *)
(* init command (commands/init.py) and the legacy script                   *)
(* tools/sync_github.py.                                                   *)
(*                                                                         *)
(* A text is a sequence of pieces; a piece is a string, either one         *)
(* character or a literal of the code that is written out unchanged.  The  *)
(* bytes of a text are the concatenation of its pieces.                    *)
(***************************************************************************)
EXTENDS Integers, Sequences, FiniteSets, TLC

VARIABLES
    chain,      \* the directories from the filesystem root down to the cwd
    src,        \* the .ai/ source tree, as the sync engine reads it
    dest,       \* the output tree under the repository root
    lastOp,     \* the operation that produced this state
    log,        \* the console report of the last command: <<kind, name>>
    written,    \* the files the last command wrote, in order: how, dir, name
    exitCode,   \* the exit code of the last command (-1: none ran)
    ai_root,    \* the .ai/ source tree, as the validator reads it
    result      \* the ValidationResult of the last validate run

vars == <<chain, src, dest, lastOp, log, written, exitCode, ai_root, result>>

(***************************************************************************)
(* Bounds of the model.                                                    *)
(***************************************************************************)
MaxEntries == 3

(***************************************************************************)
(* Characters.                                                             *)
(***************************************************************************)
LowerLetters ==
    <<"a","b","c","d","e","f","g","h","i","j","k","l","m",
      "n","o","p","q","r","s","t","u","v","w","x","y","z">>

UpperLetters ==
    <<"A","B","C","D","E","F","G","H","I","J","K","L","M",
      "N","O","P","Q","R","S","T","U","V","W","X","Y","Z">>

Digits == <<"0","1","2","3","4","5","6","7","8","9">>

\* The characters of the modelled names in code point order.
AsciiOrder ==
    <<" ", "-", ".">> \o Digits \o UpperLetters \o <<"_">> \o LowerLetters

IndexIn(seq, c) == CHOOSE i \in 1..Len(seq) : seq[i] = c

IsLower(c) == \E i \in 1..Len(LowerLetters) : LowerLetters[i] = c

IsUpper(c) == \E i \in 1..Len(UpperLetters) : UpperLetters[i] = c

UpperChar(c) == IF IsLower(c) THEN UpperLetters[IndexIn(LowerLetters, c)] ELSE c

LowerChar(c) == IF IsUpper(c) THEN LowerLetters[IndexIn(UpperLetters, c)] ELSE c

\* str.upper()
Upper(s) == [i \in 1..Len(s) |-> UpperChar(s[i])]

\* str.title(): a cased character is upper-cased after an uncased one (or at
\* the start) and lower-cased after a cased one.
Title(s) ==
    [i \in 1..Len(s) |->
        IF i > 1 /\ (IsLower(s[i-1]) \/ IsUpper(s[i-1]))
        THEN LowerChar(s[i])
        ELSE UpperChar(s[i])]

\* str.replace("-", " ")
ReplaceHyphens(s) == [i \in 1..Len(s) |-> IF s[i] = "-" THEN " " ELSE s[i]]

\* The characters of every name the model uses.
NameChars(n) ==
    CASE n = "dotnet"                 -> <<"d","o","t","n","e","t">>
      [] n = "typescript"             -> <<"t","y","p","e","s","c","r","i","p","t">>
      [] n = "python"                 -> <<"p","y","t","h","o","n">>
      [] n = "infrastructure"         -> <<"i","n","f","r","a","s","t","r","u","c","t","u","r","e">>
      [] n = "scripting"              -> <<"s","c","r","i","p","t","i","n","g">>
      [] n = "cicd"                   -> <<"c","i","c","d">>
      [] n = "linters"                -> <<"l","i","n","t","e","r","s">>
      [] n = "security"               -> <<"s","e","c","u","r","i","t","y">>
      [] n = "terraform"              -> <<"t","e","r","r","a","f","o","r","m">>
      [] n = "sub"                    -> <<"s","u","b">>
      [] n = "api-design.md"          -> <<"a","p","i","-","d","e","s","i","g","n",".","m","d">>
      [] n = "Naming.md"              -> <<"N","a","m","i","n","g",".","m","d">>
      [] n = "notes.txt"              -> <<"n","o","t","e","s",".","t","x","t">>
      [] n = "review.md"              -> <<"r","e","v","i","e","w",".","m","d">>
      [] n = "draft.txt"              -> <<"d","r","a","f","t",".","t","x","t">>
      [] n = "context"                -> <<"c","o","n","t","e","x","t">>
      [] n = "decisions"              -> <<"d","e","c","i","s","i","o","n","s">>
      [] n = "standards"              -> <<"s","t","a","n","d","a","r","d","s">>
      [] n = "prompts"                -> <<"p","r","o","m","p","t","s">>
      [] n = "templates"              -> <<"t","e","m","p","l","a","t","e","s">>
      [] n = "skills"                 -> <<"s","k","i","l","l","s">>
      [] n = "agents"                 -> <<"a","g","e","n","t","s">>
      [] n = "learnings"              -> <<"l","e","a","r","n","i","n","g","s">>
      [] n = "tools"                  -> <<"t","o","o","l","s">>
      [] n = "README.md"              -> <<"R","E","A","D","M","E",".","m","d">>
      [] n = "config.yaml"            -> <<"c","o","n","f","i","g",".","y","a","m","l">>
      [] n = "project.md"             -> <<"p","r","o","j","e","c","t",".","m","d">>
      [] n = "global.md"              -> <<"g","l","o","b","a","l",".","m","d">>
      [] n = "system.md"              -> <<"s","y","s","t","e","m",".","m","d">>
      [] n = "_index.yaml"            -> <<"_","i","n","d","e","x",".","y","a","m","l">>
      [] n = "dotnet-editorconfig.md" -> <<"d","o","t","n","e","t","-","e","d","i","t","o","r","c","o","n","f","i","g",".","m","d">>
      [] n = "eslint-config.md"       -> <<"e","s","l","i","n","t","-","c","o","n","f","i","g",".","m","d">>
      [] n = "python-pyproject.md"    -> <<"p","y","t","h","o","n","-","p","y","p","r","o","j","e","c","t",".","m","d">>
      [] n = "yamllint.md"            -> <<"y","a","m","l","l","i","n","t",".","m","d">>
      [] n = "tflint.md"              -> <<"t","f","l","i","n","t",".","m","d">>
      [] n = "azure-pipelines.md"     -> <<"a","z","u","r","e","-","p","i","p","e","l","i","n","e","s",".","m","d">>
      [] n = "quality-gates.md"       -> <<"q","u","a","l","i","t","y","-","g","a","t","e","s",".","m","d">>
      [] n = "dependabot.md"          -> <<"d","e","p","e","n","d","a","b","o","t",".","m","d">>
      [] n = "owasp-top10.md"         -> <<"o","w","a","s","p","-","t","o","p","1","0",".","m","d">>
      [] n = "snyk.md"                -> <<"s","n","y","k",".","m","d">>
      [] n = "codeql.md"              -> <<"c","o","d","e","q","l",".","m","d">>
      [] n = "multi"                  -> <<"m","u","l","t","i">>
      [] n = "cross-cutting"          -> <<"c","r","o","s","s","-","c","u","t","t","i","n","g">>
      [] n = "by-stack"               -> <<"b","y","-","s","t","a","c","k">>
      [] n = "assets"                 -> <<"a","s","s","e","t","s">>
      [] n = "svg"                    -> <<"s","v","g">>
      [] n = "sync_github.py"         -> <<"s","y","n","c","_","g","i","t","h","u","b",".","p","y">>
      [] n = "sync_github_simple.py"  -> <<"s","y","n","c","_","g","i","t","h","u","b","_","s","i","m","p","l","e",".","p","y">>
      [] n = "sync_claude.py"         -> <<"s","y","n","c","_","c","l","a","u","d","e",".","p","y">>
      [] n = "validate.py"            -> <<"v","a","l","i","d","a","t","e",".","p","y">>

\* The last index of character c in s, 0 when absent (str.rfind, 1-based).
RFind(s, c) ==
    LET hits == {i \in 1..Len(s) : s[i] = c}
    IN  IF hits = {} THEN 0 ELSE CHOOSE i \in hits : \A j \in hits : j <= i

\* PurePath.stem: the name without its last suffix; a leading or a trailing
\* dot starts no suffix.
Stem(name) ==
    LET s == NameChars(name)
        i == RFind(s, ".")
    IN  IF 1 < i /\ i < Len(s) THEN SubSeq(s, 1, i - 1) ELSE s

\* The glob pattern "*.md" (case-sensitive on POSIX).
MatchesMd(name) ==
    LET s == NameChars(name)
        n == Len(s)
    IN  n >= 3 /\ SubSeq(s, n - 2, n) = <<".", "m", "d">>

Code(c) == IndexIn(AsciiOrder, c)

\* str.__lt__ on the characters of two names.
RECURSIVE LessChars(_, _)
LessChars(a, b) ==
    IF b = <<>> THEN FALSE
    ELSE IF a = <<>> THEN TRUE
    ELSE IF Head(a) = Head(b) THEN LessChars(Tail(a), Tail(b))
    ELSE Code(Head(a)) < Code(Head(b))

\* PurePath.__lt__: the parts compared as a tuple of strings.
RECURSIVE LessPath(_, _)
LessPath(p, q) ==
    IF q = <<>> THEN FALSE
    ELSE IF p = <<>> THEN TRUE
    ELSE IF Head(p) = Head(q) THEN LessPath(Tail(p), Tail(q))
    ELSE LessChars(NameChars(Head(p)), NameChars(Head(q)))

Last(s) == s[Len(s)]

RECURSIVE SetToSeq(_)
SetToSeq(S) ==
    IF S = {} THEN <<>>
    ELSE LET x == CHOOSE y \in S : TRUE IN <<x>> \o SetToSeq(S \ {x})

\* The paths in descending order.
SortedPathsDescending(S) == SortSeq(SetToSeq(S), LAMBDA p, q : LessPath(q, p))

\* sorted(paths)
SortedPaths(S) == SortSeq(SetToSeq(S), LessPath)

(***************************************************************************)
(* File content.                                                           *)
(***************************************************************************)
Range(s) == {s[i] : i \in 1..Len(s)}

\* A byte that starts no UTF-8 sequence.
InvalidByte == "0xFF"

\* Path.read_text(encoding="utf-8") raises UnicodeDecodeError on it.
Undecodable(raw) == InvalidByte \in Range(raw)

NotUtf8 == <<"x", InvalidByte>>

\* Path.read_text(encoding="utf-8") opens the file with newline=None:
\* "\r\n" and a lone "\r" are both read as "\n".  The translation is
\* local, so the text is read in halves; a "\n" that opens the second half
\* right after a "\r" belongs to that "\r".
RECURSIVE ReadText(_)
ReadText(raw) ==
    IF raw = <<>> THEN <<>>
    ELSE IF Len(raw) = 1 THEN << IF raw[1] = "\r" THEN "\n" ELSE raw[1] >>
    ELSE LET h == Len(raw) \div 2
             right == SubSeq(raw, h + 1, Len(raw))
         IN  ReadText(SubSeq(raw, 1, h))
                 \o ReadText(IF raw[h] = "\r" /\ raw[h + 1] = "\n"
                              THEN Tail(right) ELSE right)

\* "\n".join(lines)
RECURSIVE JoinLines(_)
JoinLines(lines) ==
    IF lines = <<>> THEN <<>>
    ELSE IF Len(lines) = 1 THEN lines[1]
    ELSE lines[1] \o <<"\n">> \o JoinLines(Tail(lines))

(***************************************************************************)
(* The source tree.                                                        *)
(***************************************************************************)
SystemPrompt    == "prompts/system.md"
GlobalStandards == "standards/global.md"
LearningsGlobal == "learnings/global.md"
ProjectContext  == "context/project.md"
Architecture    == "context/architecture.md"

SingleFiles ==
    {SystemPrompt, GlobalStandards, LearningsGlobal, ProjectContext, Architecture}

\* The raw contents a source file of the model may hold.
Raws == { <<"x">>, <<"y", "\r", "\n", "z">> }

\* The directories under standards/ that the modelled trees may hold: one
\* that both profiles enumerate, one that only Profile A enumerates and one
\* that neither does.
TreeStacks == {"python", "cicd", "terraform"}

\* The paths, relative to a stack directory, of the files it may hold.
FragPaths == { <<"api-design.md">>, <<"sub", "Naming.md">>, <<"notes.txt">> }

\* The files that prompts/templates/ may hold.
TemplateNames == {"review.md", "draft.txt"}

FunctionsOnSubsets(D, R, n) ==
    UNION { [S -> R] : S \in {T \in SUBSET D : Cardinality(T) <= n} }

\* The contents a file of the given name may hold.
RawsOf(name) == IF MatchesMd(name) THEN Raws ELSE { <<"x">> }

\* What a stack directory may hold: at most n files.
StackListings(n) ==
    UNION { { f \in [S -> Raws] : \A p \in S : f[p] \in RawsOf(Last(p)) } :
            S \in {T \in SUBSET FragPaths : Cardinality(T) <= n} }

RECURSIVE SumOver(_, _)
SumOver(f, S) ==
    IF S = {} THEN 0
    ELSE LET x == CHOOSE y \in S : TRUE
         IN  1 + Cardinality(DOMAIN f[x]) + SumOver(f, S \ {x})

\* The stack directories and the files in them.
StackEntryCount(stacks) == SumOver(stacks, DOMAIN stacks)

\* Every listing order of a set of names.
RECURSIVE Orders(_)
Orders(S) ==
    IF S = {} THEN {<<>>}
    ELSE UNION { { <<x>> \o o : o \in Orders(S \ {x}) } : x \in S }

\* What prompts/templates/ may hold, in the order the directory lists it.
TemplateListings(n) ==
    UNION { { [k \in 1..Len(o) |-> [name |-> o[k], raw |-> f[o[k]]]] :
                o \in Orders(DOMAIN f) } :
            f \in { g \in FunctionsOnSubsets(TemplateNames, Raws, n) :
                      \A t \in DOMAIN g : g[t] \in RawsOf(t) } }

RECURSIVE StackMaps(_, _)
StackMaps(S, n) ==
    IF S = {} THEN { <<>> }
    ELSE LET s == CHOOSE y \in S : TRUE
         IN  UNION { {rest} \cup
                     (IF n - StackEntryCount(rest) < 1 THEN {}
                      ELSE { (s :> f) @@ rest :
                               f \in StackListings(n - StackEntryCount(rest) - 1) }) :
                     rest \in StackMaps(S \ {s}, n) }

\* The files and directories of a source tree.
EntryCount(t) ==
    Cardinality(DOMAIN t.singles) + StackEntryCount(t.stacks)
    + (IF t.templatesDir THEN 1 ELSE 0) + Len(t.templates)

\* The source trees of at most n files and directories.
SourceTrees(n) ==
    UNION { UNION {
        { [singles |-> sg, stacks |-> st, templatesDir |-> FALSE, templates |-> <<>>] }
        \cup
        (IF n - Cardinality(DOMAIN sg) - StackEntryCount(st) < 1 THEN {}
         ELSE { [singles |-> sg, stacks |-> st, templatesDir |-> TRUE, templates |-> tl] :
                  tl \in TemplateListings(
                            n - Cardinality(DOMAIN sg) - StackEntryCount(st) - 1) }) :
        st \in StackMaps(TreeStacks, n - Cardinality(DOMAIN sg)) } :
        sg \in FunctionsOnSubsets(SingleFiles, Raws, n) }

EmptyTree ==
    [singles |-> <<>>, stacks |-> <<>>, templatesDir |-> FALSE, templates |-> <<>>]


(***************************************************************************)
(* The output tree.                                                        *)
(***************************************************************************)
GithubDir        == ".github"
InstructionsDir  == ".github/instructions"
GithubPromptsDir == ".github/prompts"
ClaudeDir        == ".claude"
CommandsDir      == ".claude/commands"
DocsDir          == ".claude/docs"

EmptyDest == [dirs |-> {}, files |-> <<>>]

\* Path.mkdir(parents=True, exist_ok=True) and Path.mkdir(exist_ok=True)
Mkdir(d, path) == [d EXCEPT !.dirs = @ \cup {path}]

\* A file opened in append mode: a second write adds to the first.
PutFileAppending(d, path, text) ==
    [d EXCEPT !.files =
        (path :> (IF path \in DOMAIN @ THEN @[path] \o text ELSE text)) @@ @]

\* open(path, "w").write(text): the whole file is replaced.
PutFile(d, path, text) == [d EXCEPT !.files = (path :> text) @@ @]

PathOf(dir, name) == dir \o "/" \o name

\* An exception leaves the run: what was written stays, nothing follows.
\* (Before it, the files the run has written are deleted again.)
FailRollingBack(st) ==
    [st EXCEPT !.raised = TRUE,
               !.dest.files =
                   [p \in DOMAIN @ \ {PathOf(st.written[i].dir, st.written[i].name) :
                                         i \in 1..Len(st.written)} |-> @[p]]]

Fail(st) == [st EXCEPT !.raised = TRUE]

\* The record of one file written: how, where, the bytes, and whether they
\* took the place of other bytes.
Written(how, d, dir, name, text) ==
    [how |-> how, dir |-> dir, name |-> name, text |-> text,
     over |-> (PathOf(dir, name) \in DOMAIN d.files /\ d.files[PathOf(dir, name)] # text)]

\* (dir / name).write_text(text, encoding="utf-8"); "\n" is written as
\* os.linesep, which is "\n" on POSIX.  The call raises where the path is a
\* directory.
WriteOut(st, dir, name, text) ==
    IF PathOf(dir, name) \in st.dest.dirs THEN Fail(st)
    ELSE [st EXCEPT !.dest = PutFile(@, PathOf(dir, name), text),
                    !.written = Append(@, Written("write", st.dest, dir, name, text))]

\* A copy that leaves a file that is already there as it is.
CopyOutKeeping(st, dir, name, raw) ==
    IF PathOf(dir, name) \in DOMAIN st.dest.files THEN st
    ELSE [st EXCEPT !.dest = PutFile(@, PathOf(dir, name), raw),
                    !.written = Append(@, Written("copy", st.dest, dir, name, raw))]

\* shutil.copy(src, dir / name): the bytes of the file are copied unchanged.
CopyOut(st, dir, name, raw) ==
    [st EXCEPT !.dest = PutFile(@, PathOf(dir, name), raw),
               !.written = Append(@, Written("copy", st.dest, dir, name, raw))]

\* logger.info of one report line.
Emit(st, kind, name) ==
    IF st.raised THEN st ELSE [st EXCEPT !.log = Append(@, <<kind, name>>)]

RECURSIVE Flatten(_)
Flatten(ss) == IF ss = <<>> THEN <<>> ELSE Head(ss) \o Flatten(Tail(ss))

(***************************************************************************)
(* Profile A: .github/ for GitHub Copilot.                                 *)
(***************************************************************************)
SingleExists(tree, f) == f \in DOMAIN tree.singles

\* A read_text of one of the given files raises.
SinglesReadFails(tree, fs) ==
    \E f \in fs : SingleExists(tree, f) /\ Undecodable(tree.singles[f])

\* A read_text of a fragment of the stack raises.
StackReadFails(tree, stack) ==
    /\ stack \in DOMAIN tree.stacks
    /\ \E p \in DOMAIN tree.stacks[stack] :
          MatchesMd(Last(p)) /\ Undecodable(tree.stacks[stack][p])

\* The document without the empty line after the system prompt.
build_copilot_instructions_unspaced(tree) ==
    JoinLines(
        << <<"# Copilot Instructions">>,
           <<>>,
           <<"> Auto-generated from .ai/ structure. Do not edit directly.">>,
           <<>> >>
        \o (IF SingleExists(tree, SystemPrompt)
            THEN << ReadText(tree.singles[SystemPrompt]) >>
            ELSE <<>>)
        \o (IF SingleExists(tree, GlobalStandards)
            THEN << <<"## Global Standards">>, <<>>,
                    ReadText(tree.singles[GlobalStandards]), <<>> >>
            ELSE <<>>)
        \o (IF SingleExists(tree, LearningsGlobal)
            THEN << <<"## Learnings">>, <<>>,
                    ReadText(tree.singles[LearningsGlobal]) >>
            ELSE <<>>))

build_copilot_instructions(tree) ==
    JoinLines(
        << <<"# Copilot Instructions">>,
           <<>>,
           <<"> Auto-generated from .ai/ structure. Do not edit directly.">>,
           <<>> >>
        \o (IF SingleExists(tree, SystemPrompt)
            THEN << ReadText(tree.singles[SystemPrompt]), <<>> >>
            ELSE <<>>)
        \o (IF SingleExists(tree, GlobalStandards)
            THEN << <<"## Global Standards">>, <<>>,
                    ReadText(tree.singles[GlobalStandards]), <<>> >>
            ELSE <<>>)
        \o (IF SingleExists(tree, LearningsGlobal)
            THEN << <<"## Learnings">>, <<>>,
                    ReadText(tree.singles[LearningsGlobal]) >>
            ELSE <<>>))

StacksGithub ==
    <<"dotnet", "typescript", "python", "infrastructure", "scripting",
      "cicd", "linters", "security">>

\* The check of the stack directory left out.
StackDirExistsAlways(tree, stack) == TRUE

\* stack_dir.exists()
StackDirExists(tree, stack) == stack \in DOMAIN tree.stacks

\* sorted(stack_dir.rglob("*.md"))
StackFragments(tree, stack) ==
    IF stack \in DOMAIN tree.stacks
    THEN SortedPaths({p \in DOMAIN tree.stacks[stack] : MatchesMd(Last(p))})
    ELSE <<>>

\* The title without the replacement of the hyphens.
SectionTitleGithubHyphens(name) == Upper(Stem(name))

\* md_file.stem.replace("-", " ").upper()
SectionTitleGithub(name) == Upper(ReplaceHyphens(Stem(name)))

InstructionsFileName(stack) == stack \o ".instructions.md"

InstructionsText(tree, stack) ==
    LET frs == StackFragments(tree, stack)
    IN  JoinLines(
            << <<"# ">> \o Upper(NameChars(stack)) \o <<" Instructions">>,
               <<>>,
               <<"> Auto-generated from .ai/standards/", stack,
                 "/. Do not edit directly.">>,
               <<>> >>
            \o Flatten([k \in 1..Len(frs) |->
                  << <<>>,
                     <<"## ">> \o SectionTitleGithub(Last(frs[k])),
                     <<>>,
                     ReadText(tree.stacks[stack][frs[k]]) >>]))

RECURSIVE SyncStackInstructionsFrom(_, _, _, _)
SyncStackInstructionsFrom(tree, st, dry, i) ==
    IF i > Len(StacksGithub) \/ st.raised THEN st
    ELSE LET stack == StacksGithub[i]
             name  == InstructionsFileName(stack)
         IN  IF ~StackDirExists(tree, stack)
             THEN SyncStackInstructionsFrom(tree, st, dry, i + 1)
             ELSE IF StackReadFails(tree, stack) THEN Fail(st)
             ELSE SyncStackInstructionsFrom(
                    tree,
                    IF ~dry
                    THEN Emit(WriteOut(st, InstructionsDir, name,
                                       InstructionsText(tree, stack)),
                              "Created", name)
                    ELSE Emit(st, "WouldCreate", name),
                    dry, i + 1)

\* A dry run that reports nothing for the stacks.
sync_stack_instructions_silent(tree, st, dry) ==
    IF dry THEN st ELSE SyncStackInstructionsFrom(tree, st, dry, 1)

sync_stack_instructions(tree, st, dry) == SyncStackInstructionsFrom(tree, st, dry, 1)

RECURSIVE SyncPromptTemplatesFrom(_, _, _, _)
SyncPromptTemplatesFrom(tree, st, dry, i) ==
    IF i > Len(tree.templates) \/ st.raised THEN st
    ELSE LET t == tree.templates[i]
         IN  IF ~MatchesMd(t.name)
             THEN SyncPromptTemplatesFrom(tree, st, dry, i + 1)
             ELSE SyncPromptTemplatesFrom(
                    tree,
                    IF ~dry
                    THEN Emit(CopyOut(st, GithubPromptsDir, t.name, t.raw),
                              "Copied", t.name)
                    ELSE Emit(st, "WouldCopy", t.name),
                    dry, i + 1)

sync_prompt_templates(tree, st, dry) ==
    IF st.raised \/ ~tree.templatesDir THEN st
    ELSE SyncPromptTemplatesFrom(tree, st, dry, 1)

\* The directories made without looking at dry_run.
MkdirsGithubAlways(d, dry) ==
    Mkdir(Mkdir(Mkdir(d, GithubDir), InstructionsDir), GithubPromptsDir)

MkdirsGithub(d, dry) ==
    IF ~dry
    THEN Mkdir(Mkdir(Mkdir(d, GithubDir), InstructionsDir), GithubPromptsDir)
    ELSE d

CopilotInstructionsName == "copilot-instructions.md"

sync_github(tree, st, dry) ==
    LET st1 == [st EXCEPT !.dest = MkdirsGithub(@, dry)]
        doc == build_copilot_instructions(tree)
        st2 == IF SinglesReadFails(tree, {SystemPrompt, GlobalStandards, LearningsGlobal})
               THEN Fail(st1)
               ELSE IF ~dry
               THEN Emit(WriteOut(st1, GithubDir, CopilotInstructionsName, doc),
                         "Created", CopilotInstructionsName)
               ELSE Emit(st1, "WouldCreate", CopilotInstructionsName)
    IN  IF st.raised THEN st
        ELSE sync_prompt_templates(tree, sync_stack_instructions(tree, st2, dry), dry)


(***************************************************************************)
(* Profile B: .claude/ for Claude.                                         *)
(***************************************************************************)
\* (The literal's two back quotes, which no TLA+ string can hold, are
\* written as single quotes.)
build_claude_doc(tree) ==
    JoinLines(
        << <<"# CLAUDE.md - Project Documentation">>,
           <<>>,
           <<"> Auto-generated from .ai/ structure. Do not edit directly.">>,
           <<"> Run 'ai-wow sync claude' to regenerate.">>,
           <<>> >>
        \o (IF SingleExists(tree, ProjectContext)
            THEN << <<"## Project Context">>, <<>>,
                    ReadText(tree.singles[ProjectContext]), <<>> >>
            ELSE <<>>)
        \o (IF SingleExists(tree, Architecture)
            THEN << <<"## Architecture">>, <<>>,
                    ReadText(tree.singles[Architecture]), <<>> >>
            ELSE <<>>)
        \o (IF SingleExists(tree, SystemPrompt)
            THEN << <<"## Working Guidelines">>, <<>>,
                    ReadText(tree.singles[SystemPrompt]), <<>> >>
            ELSE <<>>)
        \o (IF SingleExists(tree, GlobalStandards)
            THEN << <<"## Coding Standards">>, <<>>,
                    ReadText(tree.singles[GlobalStandards]), <<>> >>
            ELSE <<>>)
        \o (IF SingleExists(tree, LearningsGlobal)
            THEN << <<"## Learnings">>, <<>>,
                    ReadText(tree.singles[LearningsGlobal]) >>
            ELSE <<>>))

RECURSIVE SyncCommandsFrom(_, _, _, _)
SyncCommandsFrom(tree, st, dry, i) ==
    IF i > Len(tree.templates) \/ st.raised THEN st
    ELSE LET t == tree.templates[i]
         IN  IF ~MatchesMd(t.name)
             THEN SyncCommandsFrom(tree, st, dry, i + 1)
             ELSE SyncCommandsFrom(
                    tree,
                    IF ~dry
                    THEN Emit(CopyOut(st, CommandsDir, t.name, t.raw),
                              "Copied", t.name)
                    ELSE Emit(st, "WouldCopy", t.name),
                    dry, i + 1)

sync_commands(tree, st, dry) ==
    IF st.raised THEN st
    ELSE IF ~tree.templatesDir
    THEN Emit(st, "Info", "No templates found")
    ELSE SyncCommandsFrom(tree, st, dry, 1)

StacksClaude == <<"dotnet", "typescript", "python", "infrastructure", "scripting">>

\* md_file.stem.replace("-", " ").title()
SectionTitleClaude(name) == Title(ReplaceHyphens(Stem(name)))

StandardsFileName(stack) == stack \o "-standards.md"

StandardsText(tree, stack) ==
    LET frs == StackFragments(tree, stack)
    IN  JoinLines(
            << <<"# ">> \o Upper(NameChars(stack)) \o <<" Standards">>,
               <<>>,
               <<"> Auto-generated from .ai/standards/", stack, "/">>,
               <<>> >>
            \o Flatten([k \in 1..Len(frs) |->
                  << <<"## ">> \o SectionTitleClaude(Last(frs[k])),
                     <<>>,
                     ReadText(tree.stacks[stack][frs[k]]),
                     <<>> >>]))

RECURSIVE SyncStackDocsFrom(_, _, _, _)
SyncStackDocsFrom(tree, st, dry, i) ==
    IF i > Len(StacksClaude) \/ st.raised THEN st
    ELSE LET stack == StacksClaude[i]
             name  == StandardsFileName(stack)
         IN  IF ~StackDirExists(tree, stack)
             THEN SyncStackDocsFrom(tree, st, dry, i + 1)
             ELSE IF StackReadFails(tree, stack) THEN Fail(st)
             ELSE SyncStackDocsFrom(
                    tree,
                    IF ~dry
                    THEN Emit(WriteOut(st, DocsDir, name,
                                       StandardsText(tree, stack)),
                              "Created", name)
                    ELSE Emit(st, "WouldCreate", name),
                    dry, i + 1)

sync_stack_docs(tree, st, dry) == SyncStackDocsFrom(tree, st, dry, 1)

MkdirsClaude(d, dry) ==
    IF ~dry
    THEN Mkdir(Mkdir(Mkdir(d, ClaudeDir), CommandsDir), DocsDir)
    ELSE d

ClaudeDocName == "CLAUDE.md"

sync_claude(tree, st, dry) ==
    LET st1 == [st EXCEPT !.dest = MkdirsClaude(@, dry)]
        doc == build_claude_doc(tree)
        st2 == IF SinglesReadFails(tree, SingleFiles)
               THEN Fail(st1)
               ELSE IF ~dry
               THEN Emit(WriteOut(st1, ClaudeDir, ClaudeDocName, doc),
                         "Created", ClaudeDocName)
               ELSE Emit(st1, "WouldCreate", ClaudeDocName)
    IN  IF st.raised THEN st
        ELSE sync_stack_docs(tree, sync_commands(tree, st2, dry), dry)

(***************************************************************************)
(* The search for the source root and the repository root.  chain[1] is    *)
(* the filesystem root and chain[Len(chain)] the working directory; each   *)
(* level tells what entry named .ai it holds and whether it holds .git.    *)
(* A root is a level of the chain, NoDir when the search finds none.       *)
(***************************************************************************)
NoDir == 0

\* (current / ".ai").is_dir()
HasAiDir(level) == level.ai = "dir"

\* The marker of a repository root without the look for .ai.
HasRootMarkerGitOnly(level) == level.git

\* (current / ".git").exists() or (current / ".ai").exists()
HasRootMarker(level) == level.git \/ level.ai # "none"

RECURSIVE FindAiRootFrom(_, _)
FindAiRootFrom(ch, l) ==
    IF l = 1 THEN (IF HasAiDir(ch[1]) THEN 1 ELSE NoDir)
    ELSE IF HasAiDir(ch[l]) THEN l
    ELSE FindAiRootFrom(ch, l - 1)

\* find_ai_root(): the level whose .ai directory is the source root.
find_ai_root(ch) == FindAiRootFrom(ch, Len(ch))

RECURSIVE FindRepoRootFrom(_, _)
FindRepoRootFrom(ch, l) ==
    IF l = 1 THEN (IF HasRootMarker(ch[1]) THEN 1 ELSE NoDir)
    ELSE IF HasRootMarker(ch[l]) THEN l
    ELSE FindRepoRootFrom(ch, l - 1)

find_repo_root(ch) == FindRepoRootFrom(ch, Len(ch))

\* repo_root = find_repo_root(); if not repo_root: repo_root = ai_root.parent
RepoRootFor(ch) ==
    IF find_repo_root(ch) = NoDir THEN find_ai_root(ch) ELSE find_repo_root(ch)

(***************************************************************************)
(* The sync commands.                                                      *)
(***************************************************************************)
ExitNotInitialized == 1
ExitOk == 0
ExitUncaught == 1

NotInitialized == <<"Error", "No .ai/ directory found. Run 'ai-wow init' first.">>

Begin == [dest |-> dest, log |-> <<>>, written |-> <<>>, raised |-> FALSE]

\* An exception that left the sync ends the interpreter with status 1,
\* before the closing lines of the report.
Finish(st, op, dry, done) ==
    /\ dest' = st.dest
    /\ log' = IF st.raised THEN st.log
              ELSE IF dry
              THEN st.log \o <<done, <<"Info", "This was a dry run. No files were modified.">> >>
              ELSE Append(st.log, done)
    /\ written' = st.written
    /\ exitCode' = IF st.raised THEN ExitUncaught ELSE ExitOk
    /\ lastOp' = op
    /\ UNCHANGED <<chain, src, ai_root, result>>

Abort(op) ==
    /\ log' = <<NotInitialized>>
    /\ written' = <<>>
    /\ exitCode' = ExitNotInitialized
    /\ lastOp' = op
    /\ UNCHANGED <<chain, src, dest, ai_root, result>>

SyncOp(profile, dry) == [op |-> "sync", profile |-> profile, dry |-> dry]

\* The command without its check of the source root.
sync_github_cmd_unchecked(dry) ==
    Finish(sync_github(src, Begin, dry), SyncOp("github", dry), dry,
           <<"Info", "Sync complete!">>)

sync_github_cmd(dry) ==
    IF find_ai_root(chain) = NoDir
    THEN Abort(SyncOp("github", dry))
    ELSE Finish(sync_github(src, Begin, dry), SyncOp("github", dry), dry,
                <<"Info", "Sync complete!">>)

sync_claude_cmd(dry) ==
    IF find_ai_root(chain) = NoDir
    THEN Abort(SyncOp("claude", dry))
    ELSE Finish(sync_claude(src, Begin, dry), SyncOp("claude", dry), dry,
                <<"Info", "Sync complete!">>)

\* The command with Profile B run before Profile A.
sync_all_cmd_claude_first(dry) ==
    IF find_ai_root(chain) = NoDir
    THEN Abort(SyncOp("all", dry))
    ELSE Finish(sync_github(src, sync_claude(src, Begin, dry), dry),
                SyncOp("all", dry), dry, <<"Info", "All syncs complete!">>)

sync_all_cmd(dry) ==
    IF find_ai_root(chain) = NoDir
    THEN Abort(SyncOp("all", dry))
    ELSE Finish(sync_claude(src, sync_github(src, Begin, dry), dry),
                SyncOp("all", dry), dry, <<"Info", "All syncs complete!">>)

SyncGithub == \E dry \in BOOLEAN : sync_github_cmd(dry)
SyncClaude == \E dry \in BOOLEAN : sync_claude_cmd(dry)
SyncAll    == \E dry \in BOOLEAN : sync_all_cmd(dry)

(***************************************************************************)
(* The sync engine on every source tree of at most MaxEntries entries.     *)
(***************************************************************************)
Level(ai, git) == [ai |-> ai, git |-> git]

\* Where the commands are run from.  Without a source root: nothing named
\* .ai up to the filesystem root, or only a regular file of that name.  With
\* one: .ai and .git in the working directory.
SyncChains ==
    { << Level("none", FALSE), Level("none", TRUE) >>,
      << Level("none", FALSE), Level("file", FALSE) >>,
      << Level("none", FALSE), Level("dir", TRUE) >> }

NoOp == [op |-> "none", profile |-> "none", dry |-> FALSE]

\* The validator's tree and report where validate does not run.
NoTree == [dirs |-> {}, files |-> <<>>]

NoResult == [errors |-> <<>>, warnings |-> <<>>, reached |-> "none"]

Init ==
    /\ chain \in SyncChains
    /\ src \in (IF find_ai_root(chain) = NoDir THEN {EmptyTree} ELSE SourceTrees(MaxEntries))
    /\ dest = EmptyDest
    /\ lastOp = NoOp
    /\ log = <<>>
    /\ written = <<>>
    /\ exitCode = -1
    /\ ai_root = NoTree
    /\ result = NoResult

Next == SyncGithub \/ SyncClaude \/ SyncAll

Spec == Init /\ [][Next]_vars


(***************************************************************************)
(* Properties of the sync engine.                                          *)
(***************************************************************************)
IsSync(op) == op.op = "sync"

WetSync(op) == op.op = "sync" /\ ~op.dry

DrySync(op) == op.op = "sync" /\ op.dry

\* Whether pat occurs in text as a run of consecutive pieces.
Contains(text, pat) ==
    \E i \in 1..(Len(text) - Len(pat) + 1) : SubSeq(text, i, i + Len(pat) - 1) = pat

\* The secondary composite documents of a stack: <<dir, name>> per profile.
StackDocOf(profile, stack) ==
    IF profile = "github"
    THEN <<InstructionsDir, InstructionsFileName(stack)>>
    ELSE <<DocsDir, StandardsFileName(stack)>>

\* The profiles a command runs.
ProfilesOf(op) == IF op.profile = "all" THEN {"github", "claude"} ELSE {op.profile}

WroteFile(dir, name) ==
    \E i \in 1..Len(written) : written[i].dir = dir /\ written[i].name = name

\* C1: a non-dry-run sync of Profile A or of Profile B that follows a
\* non-dry-run sync of the same profile, the source tree unchanged, leaves
\* every output file as the first run left it.
C1_SecondSyncChangesNothing ==
    [][ (WetSync(lastOp) /\ lastOp' = lastOp /\ lastOp.profile \in {"github", "claude"})
        => dest'.files = dest.files ]_vars

\* A first non-dry-run sync of Profile A has written a stack document and
\* copied a template, and the same command can run again.
C1_Witness ==
    /\ lastOp = SyncOp("github", FALSE)
    /\ WroteFile(InstructionsDir, InstructionsFileName("python"))
    /\ WroteFile(GithubPromptsDir, "review.md")
    /\ ENABLED sync_github_cmd(FALSE)

\* C2: a dry-run sync of any profile leaves the destination tree as it was:
\* no directory is created and no file is written or copied.
C2_DryRunLeavesDestination ==
    [][ DrySync(lastOp') => (dest' = dest /\ written' = <<>>) ]_vars

\* A dry run of both profiles that had a stack document and a template to
\* report, on a destination that holds nothing.
C2_Witness ==
    /\ lastOp = SyncOp("all", TRUE)
    /\ \E i \in 1..Len(log) : log[i][1] = "WouldCreate" /\ log[i][2] # CopilotInstructionsName
    /\ \E i \in 1..Len(log) : log[i][1] = "WouldCopy"
    /\ dest = EmptyDest

\* What a dry run reports it would do, in order.
WouldDo(lg) ==
    LET idx == SelectSeq([i \in 1..Len(lg) |-> i],
                         LAMBDA i : lg[i][1] \in {"WouldCreate", "WouldCopy"})
    IN  [k \in 1..Len(idx) |->
            <<IF lg[idx[k]][1] = "WouldCreate" THEN "write" ELSE "copy", lg[idx[k]][2]>>]

\* What a run did to the destination, in order.
Did(wr) == [k \in 1..Len(wr) |-> <<wr[k].how, wr[k].name>>]

\* C3: on the same source tree and for the same profile, the files a dry
\* run reports as "would create" and "would copy" are the files the
\* non-dry-run creates and copies, in the same order.
C3_DryRunReportIsWhatSyncDoes ==
    [][ /\ (DrySync(lastOp) /\ WetSync(lastOp') /\ lastOp'.profile = lastOp.profile
            /\ exitCode = ExitOk)
           => WouldDo(log) = Did(written')
        /\ (WetSync(lastOp) /\ DrySync(lastOp') /\ lastOp'.profile = lastOp.profile
            /\ exitCode = ExitOk)
           => WouldDo(log') = Did(written) ]_vars

\* A non-dry-run sync of both profiles that followed the dry run and wrote
\* six files or more: two primary documents, stack documents, templates.
C3_Witness ==
    /\ lastOp = SyncOp("all", FALSE)
    /\ Len(written) >= 6
    /\ \E i \in 1..Len(written) : written[i].how = "copy"
    /\ \E i \in 1..Len(written) : written[i].dir = InstructionsDir

\* C5: a sync command that finds no source root exits with code 1, creates
\* no directory and writes no file; one that finds it exits with code 0.
C5_ExitCodeOfSync ==
    [][ IsSync(lastOp') =>
           IF \A l \in 1..Len(chain) : chain[l].ai # "dir"
           THEN exitCode' = 1 /\ dest' = dest /\ written' = <<>>
           ELSE exitCode' = 0 ]_vars

\* A sync was refused where the only entry named .ai is a regular file.
C5_Witness ==
    /\ IsSync(lastOp)
    /\ exitCode = 1
    /\ \E l \in 1..Len(chain) : chain[l].ai = "file"
    /\ dest = EmptyDest

\* The stacks that some profile enumerates.
EnumeratedStacks == {StacksGithub[i] : i \in 1..Len(StacksGithub)}

\* The stack directory is missing or holds no file matching *.md.
BundleIsEmpty(stack) ==
    \/ stack \notin DOMAIN src.stacks
    \/ \A p \in DOMAIN src.stacks[stack] : ~MatchesMd(Last(p))

\* C6: for an enumerated stack whose bundle holds no fragment, a stack
\* directory that exists but is empty included, a sync writes no secondary
\* composite document, in either profile.
C6_NoDocumentForEmptyBundle ==
    IsSync(lastOp) =>
        \A stack \in EnumeratedStacks :
            BundleIsEmpty(stack) =>
                /\ ~WroteFile(InstructionsDir, InstructionsFileName(stack))
                /\ ~WroteFile(DocsDir, StandardsFileName(stack))

\* Whether a text names the stack: as the piece the code inserts or as its
\* characters in any case.
MentionsStack(text, stack) ==
    \/ Contains(text, <<stack>>)
    \/ \E i \in 1..(Len(text) - Len(NameChars(stack)) + 1) :
          [k \in 1..Len(NameChars(stack)) |-> LowerChar(text[i + k - 1])]
            = NameChars(stack)

MdFragments(stack) == {p \in DOMAIN src.stacks[stack] : MatchesMd(Last(p))}

\* The bytes with every "\r\n" and every other "\r" replaced by "\n".
RECURSIVE NewlinesNormalised(_)
NewlinesNormalised(raw) ==
    IF raw = <<>> THEN <<>>
    ELSE IF Len(raw) >= 2 /\ raw[1] = "\r" /\ raw[2] = "\n"
    THEN <<"\n">> \o NewlinesNormalised(Tail(Tail(raw)))
    ELSE <<IF raw[1] = "\r" THEN "\n" ELSE raw[1]>> \o NewlinesNormalised(Tail(raw))

\* The text holds a "## " heading whose title is, letter case aside, the
\* stem with its hyphens replaced by spaces, then an empty line, then body.
HoldsSection(text, stem, body) ==
    \E i \in 1..Len(text) :
        /\ i + Len(stem) + Len(body) + 2 <= Len(text)
        /\ text[i] = "## "
        /\ [k \in 1..Len(stem) |-> LowerChar(text[i + k])]
             = [k \in 1..Len(stem) |->
                   IF stem[k] = "-" THEN " " ELSE LowerChar(stem[k])]
        /\ text[i + Len(stem) + 1] = "\n"
        /\ text[i + Len(stem) + 2] = "\n"
        /\ SubSeq(text, i + Len(stem) + 3, i + Len(stem) + 2 + Len(body)) = body

\* Whether the profile's document for the stack holds every fragment, each
\* with its raw bytes or with its bytes as read.
DocumentHoldsFragments(profile, stack, asRead) ==
    LET doc == StackDocOf(profile, stack)
    IN  \A p \in MdFragments(stack) :
            /\ PathOf(doc[1], doc[2]) \in DOMAIN dest.files
            /\ HoldsSection(dest.files[PathOf(doc[1], doc[2])], Stem(Last(p)),
                            IF asRead
                            THEN NewlinesNormalised(src.stacks[stack][p])
                            ELSE src.stacks[stack][p])

StacksOf(profile) ==
    IF profile = "github"
    THEN {StacksGithub[i] : i \in 1..Len(StacksGithub)}
    ELSE {StacksClaude[i] : i \in 1..Len(StacksClaude)}

required_dirs ==
    << <<"context">>, <<"context", "decisions">>, <<"standards">>,
       <<"standards", "cicd">>, <<"standards", "linters">>,
       <<"standards", "security">>, <<"prompts">>, <<"prompts", "templates">>,
       <<"skills">>, <<"agents">>, <<"learnings">>, <<"tools">> >>

required_files ==
    << <<"README.md">>, <<"config.yaml">>, <<"context", "project.md">>,
       <<"standards", "global.md">>, <<"prompts", "system.md">>,
       <<"prompts", "_index.yaml">>, <<"skills", "_index.yaml">>,
       <<"agents", "_index.yaml">>, <<"learnings", "global.md">> >>

linters_dir == <<"standards", "linters">>

linter_configs ==
    <<"dotnet-editorconfig.md", "eslint-config.md", "python-pyproject.md",
      "yamllint.md", "tflint.md">>

cicd_dir == <<"standards", "cicd">>

cicd_configs == <<"azure-pipelines.md", "quality-gates.md", "dependabot.md">>

security_dir == <<"standards", "security">>

security_configs == <<"owasp-top10.md", "snyk.md", "codeql.md">>

agents_index == <<"agents", "_index.yaml">>

skills_index == <<"skills", "_index.yaml">>

\* Path.exists(); the source root itself is the empty path.
Exists(t, p) == p = <<>> \/ p \in t.dirs \/ p \in DOMAIN t.files

Parent(p) == SubSeq(p, 1, Len(p) - 1)

IsPrefix(p, q) == Len(p) <= Len(q) /\ SubSeq(q, 1, Len(p)) = p

\* Path.mkdir(parents=True, exist_ok=True) fails where the path or one of
\* its parents is a regular file.
MkdirFails(t, p) == \E k \in 1..Len(p) : SubSeq(p, 1, k) \in DOMAIN t.files

\* A fix that creates nothing.
MkdirParentsSkipped(t, p) == t

MkdirParents(t, p) == [t EXCEPT !.dirs = @ \cup {SubSeq(p, 1, k) : k \in 1..Len(p)}]

\* The glob pattern "*.yaml".
MatchesYaml(name) ==
    LET s == NameChars(name)
        n == Len(s)
    IN  n >= 5 /\ SubSeq(s, n - 4, n) = <<".", "y", "a", "m", "l">>

\* ai_root.rglob(pattern): the entries whose name matches, in the order of
\* their paths.
RglobYaml(t) == SortedPaths({p \in t.dirs \cup DOMAIN t.files : MatchesYaml(Last(p))})

RglobMd(t) == SortedPaths({p \in t.dirs \cup DOMAIN t.files : MatchesMd(Last(p))})

\* Path.read_text(encoding="utf-8") raises on a directory and on bytes
\* that are not UTF-8.
ReadFails(t, p) == p \notin DOMAIN t.files \/ InvalidByte \in Range(t.files[p])

ReadUtf8(t, p) == ReadText(t.files[p])

(***************************************************************************)
(* The regular expressions of the validator, on a text of characters.      *)
(***************************************************************************)
\* \s
IsSpaceChar(c) == c \in {" ", "\t", "\n", "\r", "\f"}

IsDigit(c) == c \in Range(Digits)

\* \w
IsWordChar(c) == IsLower(c) \/ IsUpper(c) \/ IsDigit(c) \/ c = "_"

\* [\w/-]
IsRefChar(c) == IsWordChar(c) \/ c = "/" \/ c = "-"

\* Where a greedy \s* that starts at i ends.
SkipSpaces(t, i) ==
    CHOOSE j \in i..(Len(t) + 1) :
        /\ \A k \in i..(j - 1) : IsSpaceChar(t[k])
        /\ (j = Len(t) + 1 \/ ~IsSpaceChar(t[j]))

\* Where a greedy [\w/-]* that starts at i ends.
SkipRefChars(t, i) ==
    CHOOSE j \in i..(Len(t) + 1) :
        /\ \A k \in i..(j - 1) : IsRefChar(t[k])
        /\ (j = Len(t) + 1 \/ ~IsRefChar(t[j]))

\* Where the line of position i ends: at its "\n" or past the text.
LineEnd(t, i) ==
    CHOOSE j \in i..(Len(t) + 1) :
        /\ \A k \in i..(j - 1) : t[k] # "\n"
        /\ (j = Len(t) + 1 \/ t[j] = "\n")

\* ^ under re.MULTILINE
AtLineStart(t, i) == i = 1 \/ t[i - 1] = "\n"

\* $ under re.MULTILINE
AtLineEnd(t, i) == i = Len(t) + 1 \/ t[i] = "\n"

Max(S) == CHOOSE x \in S : \A y \in S : y <= x

Min(S) == CHOOSE x \in S : \A y \in S : x <= y

NoMatch == [ok |-> FALSE, group |-> <<>>, end |-> 0]

\* re.match of ^\s*-\s*([\w/-]+)\s*$ at position i: the greedy runs leave
\* one way to match; the trailing \s* gives back to the last line end.
RefMatchAt(t, i) ==
    LET a == SkipSpaces(t, i)
        b == SkipSpaces(t, a + 1)
        c == SkipRefChars(t, b)
        ends == {e \in c..SkipSpaces(t, c) : AtLineEnd(t, e)}
    IN  IF AtLineStart(t, i) /\ a <= Len(t) /\ t[a] = "-" /\ c > b /\ ends # {}
        THEN [ok |-> TRUE, group |-> SubSeq(t, b, c - 1), end |-> Max(ends)]
        ELSE NoMatch

\* re.match of ^\s*-\s*id:\s*(.+)$ at position i: the \s* after "id:" gives
\* back until a character of the line is left for the group.
IdMatchAt(t, i) ==
    LET a == SkipSpaces(t, i)
        b == SkipSpaces(t, a + 1)
        starts == {k \in (b + 3)..SkipSpaces(t, b + 3) : k <= Len(t) /\ t[k] # "\n"}
    IN  IF /\ AtLineStart(t, i) /\ a <= Len(t) /\ t[a] = "-"
           /\ b + 2 <= Len(t) /\ SubSeq(t, b, b + 2) = <<"i", "d", ":">>
           /\ starts # {}
        THEN [ok |-> TRUE,
              group |-> SubSeq(t, Max(starts), LineEnd(t, Max(starts)) - 1),
              end |-> LineEnd(t, Max(starts))]
        ELSE NoMatch

\* re.findall: the groups of the matches found from position i on, each
\* search starting where the last match ended.
RECURSIVE FindRefs(_, _)
FindRefs(t, i) ==
    IF i > Len(t) THEN {}
    ELSE LET m == RefMatchAt(t, i)
         IN  IF m.ok THEN {m.group} \cup FindRefs(t, m.end) ELSE FindRefs(t, i + 1)

RECURSIVE FindIds(_, _)
FindIds(t, i) ==
    IF i > Len(t) THEN {}
    ELSE LET m == IdMatchAt(t, i)
         IN  IF m.ok THEN {m.group} \cup FindIds(t, m.end) ELSE FindIds(t, i + 1)

\* re.match of \[.+?\]\(([^http][^\)]+)\) at position i: the lazy .+? grows
\* over the line until "](" and a target follow it; the target's first
\* character is none of h, t, p and the rest runs up to the next ")".
LinkMatchAt(t, i) ==
    LET closes ==
            {j \in (i + 2)..(Len(t) - 4) :
                /\ \A k \in (i + 1)..(j - 1) : t[k] # "\n"
                /\ t[j] = "]" /\ t[j + 1] = "("
                /\ t[j + 2] \notin {"h", "t", "p"}
                /\ t[j + 3] # ")"
                /\ \E r \in (j + 4)..Len(t) : t[r] = ")"}
        j == Min(closes)
        r == Min({q \in (j + 4)..Len(t) : t[q] = ")"})
    IN  IF i <= Len(t) /\ t[i] = "[" /\ closes # {}
        THEN [ok |-> TRUE, group |-> SubSeq(t, j + 2, r - 1), end |-> r + 1]
        ELSE NoMatch

\* link_pattern.finditer(content): group(1) of every match, in order.
RECURSIVE FindLinks(_, _)
FindLinks(t, i) ==
    LET found == {k \in i..Len(t) : LinkMatchAt(t, k).ok}
    IN  IF found = {} THEN <<>>
        ELSE LET m == LinkMatchAt(t, Min(found))
             IN  <<m.group>> \o FindLinks(t, m.end)

\* link_path.split("#")[0]
BeforeAnchor(s) ==
    LET hits == {i \in 1..Len(s) : s[i] = "#"}
    IN  IF hits = {} THEN s ELSE SubSeq(s, 1, Min(hits) - 1)

\* link_path.startswith("mailto:")
IsMailto(s) == Len(s) >= 7 /\ SubSeq(s, 1, 7) = <<"m","a","i","l","t","o",":">>

\* str.split("/"): the parts of a path written with "/".
RECURSIVE SplitSlash(_)
SplitSlash(s) ==
    LET hits == {i \in 1..Len(s) : s[i] = "/"}
    IN  IF hits = {} THEN <<s>>
        ELSE <<SubSeq(s, 1, Min(hits) - 1)>> \o SplitSlash(SubSeq(s, Min(hits) + 1, Len(s)))

Outside == <<"outside">>

\* (file_dir / link_path).resolve(): the parts of the path below the source
\* root, each as its characters; Outside for a path that leaves the root.
RECURSIVE ResolveFrom(_, _)
ResolveFrom(at, parts) ==
    IF parts = <<>> THEN at
    ELSE IF Head(parts) \in {<<>>, <<".">>} THEN ResolveFrom(at, Tail(parts))
    ELSE IF Head(parts) = <<".", ".">>
    THEN IF at = <<>> THEN Outside ELSE ResolveFrom(Parent(at), Tail(parts))
    ELSE ResolveFrom(Append(at, Head(parts)), Tail(parts))

Resolve(file_dir, link_path) ==
    IF Head(link_path) = "/" THEN Outside
    ELSE ResolveFrom([k \in 1..Len(file_dir) |-> NameChars(file_dir[k])],
                     SplitSlash(link_path))

PathChars(p) == [k \in 1..Len(p) |-> NameChars(p[k])]

\* absolute_path.exists()
ExistsResolved(t, at) ==
    /\ at # Outside
    /\ at = <<>> \/ \E p \in t.dirs \cup DOMAIN t.files : PathChars(p) = at

\* yaml.safe_load raises a YAMLError on a flow sequence that is never
\* closed: a "[" that starts a value with no "]" after it.
SafeLoadFails(text) ==
    \E i \in 1..Len(text) :
        /\ text[i] = "["
        /\ (i = 1 \/ text[i - 1] \in {" ", "\n"})
        /\ \A j \in (i + 1)..Len(text) : text[j] # "]"


(***************************************************************************)
(* The sub-checks.  A run is the tree, the ValidationResult so far and     *)
(* the sub-check in which an exception left the command, "" while none     *)
(* has.  A message is its fixed words followed by what the code formats    *)
(* into it.                                                                *)
(***************************************************************************)
\* A report that keeps its first error only.
AddErrorOnce(run, msg) ==
    IF run.result.errors = <<>> THEN [run EXCEPT !.result.errors = Append(@, msg)] ELSE run

AddError(run, msg) == [run EXCEPT !.result.errors = Append(@, msg)]

AddWarning(run, msg) == [run EXCEPT !.result.warnings = Append(@, msg)]

Raise(run, check) == [run EXCEPT !.raised = check]

\* The message of a missing required file, without the file's name.
RequiredFileErrorUnnamed(file_name) == <<"Missing required file", <<>>>>

RequiredFileError(file_name) == <<"Missing required file", file_name>>

RECURSIVE RequiredDirectoriesFrom(_, _, _)
RequiredDirectoriesFrom(run, fix, i) ==
    IF i > Len(required_dirs) \/ run.raised # "" THEN run
    ELSE LET dir_name == required_dirs[i]
         IN  IF Exists(run.tree, dir_name)
             THEN RequiredDirectoriesFrom(run, fix, i + 1)
             ELSE LET failed == AddError(run, <<"Missing required directory", dir_name>>)
                  IN  IF ~fix THEN RequiredDirectoriesFrom(failed, fix, i + 1)
                      ELSE IF MkdirFails(run.tree, dir_name)
                      THEN Raise(failed, "test_required_directories")
                      ELSE RequiredDirectoriesFrom(
                               [failed EXCEPT !.tree = MkdirParents(@, dir_name)],
                               fix, i + 1)

test_required_directories(run, fix) == RequiredDirectoriesFrom(run, fix, 1)

RECURSIVE RequiredFilesFrom(_, _)
RequiredFilesFrom(run, i) ==
    IF i > Len(required_files) THEN run
    ELSE RequiredFilesFrom(
             IF Exists(run.tree, required_files[i]) THEN run
             ELSE AddError(run, RequiredFileError(required_files[i])),
             i + 1)

test_required_files(run) == RequiredFilesFrom(run, 1)

\* One file of the YAML check without its look for tabs.
YamlFileTabsUnseen(run, yaml_file) ==
    IF ReadFails(run.tree, yaml_file)
    THEN AddError(run, <<"Error reading", yaml_file>>)
    ELSE IF SafeLoadFails(ReadUtf8(run.tree, yaml_file))
    THEN AddError(run, <<"Invalid YAML", yaml_file>>)
    ELSE run

\* One file of the YAML check: a failure to read or to parse is caught.
YamlFile(run, yaml_file) ==
    IF ReadFails(run.tree, yaml_file)
    THEN AddError(run, <<"Error reading", yaml_file>>)
    ELSE IF "\t" \in Range(ReadUtf8(run.tree, yaml_file))
    THEN AddWarning(run, <<"YAML file contains tabs", yaml_file>>)
    ELSE IF SafeLoadFails(ReadUtf8(run.tree, yaml_file))
    THEN AddError(run, <<"Invalid YAML", yaml_file>>)
    ELSE run

RECURSIVE YamlFilesFrom(_, _)
YamlFilesFrom(run, files) ==
    IF files = <<>> THEN run
    ELSE YamlFilesFrom(YamlFile(run, Head(files)), Tail(files))

test_yaml_files(run) == YamlFilesFrom(run, RglobYaml(run.tree))

\* A set of texts in the order of their characters.
SortedTexts(S) == SortSeq(SetToSeq(S), LessChars)

RECURSIVE BrokenRefsFrom(_, _)
BrokenRefsFrom(run, refs) ==
    IF refs = <<>> THEN run
    ELSE BrokenRefsFrom(AddError(run, <<"Agent references unknown skill", Head(refs)>>),
                        Tail(refs))

skill_ids(t) == FindIds(ReadUtf8(t, skills_index), 1)

agent_skill_refs(t) ==
    {ref \in FindRefs(ReadUtf8(t, agents_index), 1) : "/" \in Range(ref)}

\* The check without its test that both index files exist.
test_cross_references_unguarded(run) ==
    IF ReadFails(run.tree, agents_index) \/ ReadFails(run.tree, skills_index)
    THEN AddWarning(run, <<"Could not check cross-references">>)
    ELSE BrokenRefsFrom(run,
             SortedTexts(agent_skill_refs(run.tree) \ skill_ids(run.tree)))

test_cross_references(run) ==
    IF Exists(run.tree, agents_index) /\ Exists(run.tree, skills_index)
    THEN IF ReadFails(run.tree, agents_index) \/ ReadFails(run.tree, skills_index)
         THEN AddWarning(run, <<"Could not check cross-references">>)
         ELSE BrokenRefsFrom(run,
                  SortedTexts(agent_skill_refs(run.tree) \ skill_ids(run.tree)))
    ELSE run

\* The links of one markdown file.
RECURSIVE MarkdownLinksIn(_, _, _)
MarkdownLinksIn(run, md_file, links) ==
    IF links = <<>> THEN run
    ELSE LET link_path == BeforeAnchor(Head(links))
         IN  MarkdownLinksIn(
                 IF /\ link_path # <<>>
                    /\ ~IsMailto(link_path)
                    /\ ~ExistsResolved(run.tree, Resolve(Parent(md_file), link_path))
                 THEN AddWarning(run, <<"Broken link in", md_file, link_path>>)
                 ELSE run,
                 md_file, Tail(links))

\* The read of a markdown file is in no try block: its failure leaves the
\* command.
RECURSIVE MarkdownFilesFrom(_, _)
MarkdownFilesFrom(run, files) ==
    IF files = <<>> THEN run
    ELSE IF ReadFails(run.tree, Head(files)) THEN Raise(run, "test_markdown_links")
    ELSE MarkdownFilesFrom(
             MarkdownLinksIn(run, Head(files),
                             FindLinks(ReadUtf8(run.tree, Head(files)), 1)),
             Tail(files))

test_markdown_links(run) == MarkdownFilesFrom(run, RglobMd(run.tree))

RECURSIVE ExpectedConfigsFrom(_, _, _, _, _)
ExpectedConfigsFrom(run, dir, configs, words, i) ==
    IF i > Len(configs) THEN run
    ELSE ExpectedConfigsFrom(
             IF Exists(run.tree, Append(dir, configs[i])) THEN run
             ELSE AddWarning(run, <<words, configs[i]>>),
             dir, configs, words, i + 1)

test_linter_configs(run) ==
    ExpectedConfigsFrom(run, linters_dir, linter_configs, "Missing linter config", 1)

test_cicd_configs(run) ==
    ExpectedConfigsFrom(run, cicd_dir, cicd_configs, "Missing CI/CD config", 1)

test_security_configs(run) ==
    ExpectedConfigsFrom(run, security_dir, security_configs, "Missing security config", 1)

\* The eight sub-checks in the order validate_cmd calls them.
RunValidation(run, fix, k) ==
    CASE k = 1 -> test_required_directories(run, fix)
      [] k = 2 -> test_required_files(run)
      [] k = 3 -> test_yaml_files(run)
      [] k = 4 -> test_cross_references(run)
      [] k = 5 -> test_markdown_links(run)
      [] k = 6 -> test_linter_configs(run)
      [] k = 7 -> test_cicd_configs(run)
      [] k = 8 -> test_security_configs(run)

\* A sub-check runs unless an exception has already left the command.
RECURSIVE RunValidationsFrom(_, _, _)
RunValidationsFrom(run, fix, k) ==
    IF k > 8 \/ run.raised # "" THEN run
    ELSE RunValidationsFrom(RunValidation(run, fix, k), fix, k + 1)

RunAllValidations(t, fix) ==
    RunValidationsFrom(
        [tree |-> t, result |-> [errors |-> <<>>, warnings |-> <<>>], raised |-> ""],
        fix, 1)

ExitErrors == 1

\* The summary: sys.exit(0) with nothing to report, sys.exit(1) with an
\* error, a plain return otherwise; an uncaught exception ends the
\* interpreter with status 1.
ExitOfRun(run) ==
    IF run.raised # "" THEN ExitUncaught
    ELSE IF run.result.errors = <<>> /\ run.result.warnings = <<>> THEN ExitOk
    ELSE IF run.result.errors # <<>> THEN ExitErrors
    ELSE ExitOk

ValidateOp(fix, removed, file, changed) ==
    [op |-> "validate", fix |-> fix, removed |-> removed, file |-> file,
     changed |-> changed]

RemoveOp(fix, removed, file) ==
    [op |-> "remove", fix |-> fix, removed |-> removed, file |-> file,
     changed |-> TRUE]

Removed(op) == IF op.op \in {"validate", "remove"} THEN op.removed ELSE 0

validate_cmd(fix) ==
    IF find_ai_root(chain) = NoDir
    THEN /\ exitCode' = ExitNotInitialized
         /\ result' = NoResult
         /\ lastOp' = ValidateOp(fix, Removed(lastOp), <<>>, FALSE)
         /\ UNCHANGED <<chain, src, dest, log, written, ai_root>>
    ELSE \E run \in {RunAllValidations(ai_root, fix)} :
             /\ ai_root' = run.tree
             /\ result' = [errors |-> run.result.errors,
                           warnings |-> run.result.warnings,
                           reached |-> IF run.raised = "" THEN "summary" ELSE run.raised]
             /\ exitCode' = ExitOfRun(run)
             /\ lastOp' = ValidateOp(fix, Removed(lastOp),
                                     IF lastOp.op = "remove" THEN lastOp.file ELSE <<>>,
                                     run.tree # ai_root)
             /\ UNCHANGED <<chain, src, dest, log, written>>

Validate == \E fix \in BOOLEAN : validate_cmd(fix)


(***************************************************************************)
(* The source trees the validator is run on: a complete tree, and every    *)
(* tree that departs from it in at most MaxDefects places.                 *)
(***************************************************************************)
MaxDefects == 1

MaxRemovals == 1

Plain == <<"x","\n">>

YamlOk == <<"a",":"," ","b","\n">>

YamlTab == <<"a",":","\t","b","\n">>

YamlUnclosed == <<"a",":"," ","[","\n">>

YamlTabNotUtf8 == <<"a", ":", "\t", InvalidByte>>

LinkToConfig == <<"[","a","]","(","c","o","n","f","i","g",".","y","a","m","l",")","\n">>

LinkToProject == <<"[","a","]","(","c","o","n","t","e","x","t","/","p","r","o","j","e","c","t",".","m","d","#","s",")","\n">>

LinkHttp == <<"[","a","]","(","h","t","t","p",":","/","/","x",")","\n">>

LinkMissing == <<"[","a","]","(","m","i","s","s","i","n","g",".","m","d",")","\n">>

LinkMissingP == <<"[","a","]","(","p","r","o","m","p","t","s","/","g","o","n","e",".","m","d",")","\n">>

LinkUp == <<"[","a","]","(",".",".","/","R","E","A","D","M","E",".","m","d",")","\n">>

LinkToTools == <<"[","a","]","(",".",".","/","t","o","o","l","s",")","\n">>

SkillsDeclared == <<"-"," ","i","d",":"," ","a","/","b","\n">>

SkillsTrailingBlank == <<"-"," ","i","d",":"," ","a","/","b"," ","\n">>

SkillsOther == <<"-"," ","i","d",":"," ","c","/","d","\n">>

SkillsNone == <<"s","k","i","l","l","s",":"," ","[","]","\n">>

AgentsDeclared == <<"-"," ","a","/","b","\n">>

AgentsUnknown == <<"-"," ","x","/","y","\n">>

AgentsRepeated == <<"-"," ","a","/","b","\n","-"," ","x","/","y","\n","-"," ","x","/","y","\n">>

AgentsDotted == <<"-"," ","a",".","b","/","c","\n">>

AgentsIndented == <<" "," ","-"," ","x","/","y"," "," ","\n">>

OptionalFiles ==
    {Append(linters_dir, linter_configs[i]) : i \in 1..Len(linter_configs)}
    \cup {Append(cicd_dir, cicd_configs[i]) : i \in 1..Len(cicd_configs)}
    \cup {Append(security_dir, security_configs[i]) : i \in 1..Len(security_configs)}

BaseContent(p) ==
    IF p = skills_index THEN SkillsDeclared
    ELSE IF p = <<"prompts", "system.md">> THEN LinkToTools
    ELSE IF p = agents_index THEN AgentsDeclared
    ELSE IF MatchesYaml(Last(p)) THEN YamlOk
    ELSE Plain

\* Every required directory and file and every expected config.
CompleteTree ==
    [dirs  |-> Range(required_dirs),
     files |-> [p \in Range(required_files) \cup OptionalFiles |-> BaseContent(p)]]

Departure(kind, path, raw) == [kind |-> kind, path |-> path, raw |-> raw]

Departures ==
    {Departure("rmdir", d, <<>>) : d \in Range(required_dirs)}
    \cup {Departure("mkfile", d, Plain) : d \in {<<"context">>, <<"standards">>, <<"tools">>}}
    \cup {Departure("rm", f, <<>>) : f \in Range(required_files)}
    \cup {Departure("rm", f, <<>>) :
            f \in {Append(linters_dir, "tflint.md"), Append(cicd_dir, "dependabot.md"),
                   Append(security_dir, "codeql.md")}}
    \cup {Departure("set", <<"config.yaml">>, raw) : raw \in {YamlTab, YamlUnclosed, NotUtf8, YamlTabNotUtf8}}
    \cup {Departure("set", <<"README.md">>, raw) :
            raw \in {LinkToConfig, LinkToProject, LinkHttp, LinkMissing, LinkMissingP, NotUtf8}}
    \cup {Departure("set", <<"context", "project.md">>, LinkUp)}
    \cup {Departure("set", skills_index, raw) :
            raw \in {SkillsTrailingBlank, SkillsOther, SkillsNone, NotUtf8}}
    \cup {Departure("set", agents_index, raw) :
            raw \in {AgentsUnknown, AgentsRepeated, AgentsDotted, AgentsIndented, NotUtf8}}

\* The tree without the entries at and below a path.
Without(t, path) ==
    [dirs  |-> {d \in t.dirs : ~IsPrefix(path, d)},
     files |-> [f \in {g \in DOMAIN t.files : ~IsPrefix(path, g)} |-> t.files[f]]]

WithFile(t, path, raw) == [t EXCEPT !.files = (path :> raw) @@ @]

Depart(t, d) ==
    CASE d.kind = "rmdir"  -> Without(t, d.path)
      [] d.kind = "rm"     -> Without(t, d.path)
      [] d.kind = "mkfile" -> WithFile(Without(t, d.path), d.path, d.raw)
      [] d.kind = "set"    -> IF d.path \in DOMAIN t.files
                              THEN WithFile(t, d.path, d.raw) ELSE t

RECURSIVE DepartAll(_, _)
DepartAll(t, ds) ==
    IF ds = {} THEN t
    ELSE LET d == CHOOSE e \in ds : TRUE IN DepartAll(Depart(t, d), ds \ {d})

\* The subsets of S of at most n elements.
RECURSIVE SubsetsUpTo(_, _)
SubsetsUpTo(S, n) ==
    IF n = 0 THEN { {} }
    ELSE LET smaller == SubsetsUpTo(S, n - 1)
         IN  smaller \cup {T \cup {x} : T \in smaller, x \in S}

\* Two defects in the YAML files: one in a file that the YAML check comes
\* to early, one in a file that it comes to later.
DoubleDefects ==
    { {Departure("set", agents_index, NotUtf8),
       Departure("set", <<"config.yaml">>, YamlTab)},
      {Departure("set", <<"config.yaml">>, YamlUnclosed),
       Departure("set", skills_index, NotUtf8)} }

ValidateTrees(n) ==
    {DepartAll(CompleteTree, ds) : ds \in SubsetsUpTo(Departures, n) \cup DoubleDefects}

\* A required file is deleted between two validate runs.
RemoveRequiredFile ==
    \E f \in Range(required_files) :
        /\ lastOp.op = "validate"
        /\ ~lastOp.changed
        /\ lastOp.removed < MaxRemovals
        /\ f \in DOMAIN ai_root.files
        /\ ai_root' = Without(ai_root, f)
        /\ lastOp' = RemoveOp(lastOp.fix, lastOp.removed + 1, f)
        /\ UNCHANGED <<chain, src, dest, log, written, exitCode, result>>

InitValidate ==
    /\ chain \in SyncChains
    /\ ai_root \in (IF find_ai_root(chain) = NoDir THEN {NoTree}
                    ELSE ValidateTrees(MaxDefects))
    /\ src = EmptyTree
    /\ dest = EmptyDest
    /\ lastOp = NoOp
    /\ log = <<>>
    /\ written = <<>>
    /\ exitCode = -1
    /\ result = NoResult

NextValidate == Validate \/ RemoveRequiredFile

SpecValidate == InitValidate /\ [][NextValidate]_vars

(***************************************************************************)
(* The init command (commands/init.py): the tree it creates under .ai/.    *)
(* A file's content is the characters the code writes; BackQuote stands    *)
(* for the back quote, which no string of the module can hold.             *)
(***************************************************************************)
BackQuote == "0x60"

StackTypes == {"dotnet", "typescript", "python", "terraform", "multi"}

\* f"standards/{stack}" if stack != "multi" else "standards/dotnet"
StackDirName(stack) == IF stack # "multi" THEN stack ELSE "dotnet"

directories(stack) ==
    << <<"context">>, <<"context", "decisions">>, <<"standards">>,
       <<"standards", StackDirName(stack)>>, <<"standards", "cicd">>,
       <<"standards", "linters">>, <<"standards", "security">>, <<"prompts">>,
       <<"prompts", "templates">>, <<"skills">>, <<"skills", StackDirName(stack)>>,
       <<"skills", "cross-cutting">>, <<"agents">>, <<"learnings">>,
       <<"learnings", "by-stack">>, <<"assets">>, <<"assets", "svg">>, <<"tools">> >>

RECURSIVE MkdirAllFrom(_, _, _)
MkdirAllFrom(t, dirs, i) ==
    IF i > Len(dirs) THEN t ELSE MkdirAllFrom(MkdirParents(t, dirs[i]), dirs, i + 1)

create_directory_structure(t, stack) == MkdirAllFrom(t, directories(stack), 1)

readme_content(project_name) ==
    <<"#"," ",".","a","i","/"," ","F","r","a","m","e","w","o","r","k"," ","-"," ">>
    \o project_name
    \o <<"\n","\n","T","h","i","s"," ","d","i","r","e","c","t","o","r","y"," ","c","o","n","t","a","i","n","s"," ","t","h","e"," ","A","I","-","a","s","s","i","s","t","e","d"," ","d","e","v","e","l","o","p","m","e","n","t"," ","f","r","a","m","e","w","o","r","k"," ","c","o","n","f","i","g","u","r","a","t","i","o","n",".","\n","\n","#","#"," ","S","t","r","u","c","t","u","r","e","\n","\n","-"," ","*","*","c","o","n","t","e","x","t","/","*","*"," ","-"," ","P","r","o","j","e","c","t"," ","c","o","n","t","e","x","t"," ","a","n","d"," ","a","r","c","h","i","t","e","c","t","u","r","e"," ","d","o","c","u","m","e","n","t","a","t","i","o","n","\n","-"," ","*","*","s","t","a","n","d","a","r","d","s","/","*","*"," ","-"," ","C","o","d","i","n","g"," ","s","t","a","n","d","a","r","d","s"," ","b","y"," ","t","e","c","h","n","o","l","o","g","y"," ","s","t","a","c","k","\n","-"," ","*","*","p","r","o","m","p","t","s","/","*","*"," ","-"," ","R","e","u","s","a","b","l","e"," ","p","r","o","m","p","t"," ","t","e","m","p","l","a","t","e","s","\n","-"," ","*","*","s","k","i","l","l","s","/","*","*"," ","-"," ","P","r","o","c","e","d","u","r","a","l"," ","s","k","i","l","l","s"," ","f","o","r"," ","c","o","m","m","o","n"," ","t","a","s","k","s","\n","-"," ","*","*","a","g","e","n","t","s","/","*","*"," ","-"," ","C","o","m","p","l","e","x"," ","m","u","l","t","i","-","s","t","e","p"," ","w","o","r","k","f","l","o","w"," ","o","r","c","h","e","s","t","r","a","t","o","r","s","\n","-"," ","*","*","l","e","a","r","n","i","n","g","s","/","*","*"," ","-"," ","A","c","c","u","m","u","l","a","t","e","d"," ","k","n","o","w","l","e","d","g","e"," ","a","n","d"," ","p","a","t","t","e","r","n","s","\n","-"," ","*","*","t","o","o","l","s","/","*","*"," ","-"," ","S","y","n","c","h","r","o","n","i","z","a","t","i","o","n"," ","a","n","d"," ","u","t","i","l","i","t","y"," ","s","c","r","i","p","t","s","\n","\n","#","#"," ","U","s","a","g","e","\n","\n","#","#","#"," ","U","s","i","n","g"," ","a","i","-","w","o","w"," ","C","L","I"," ","(","R","e","c","o","m","m","e","n","d","e","d",")","\n","\n",BackQuote,BackQuote,BackQuote,"b","a","s","h","\n","#"," ","S","y","n","c"," ","t","o"," ","G","i","t","H","u","b"," ","C","o","p","i","l","o","t","\n","a","i","-","w","o","w"," ","s","y","n","c"," ","g","i","t","h","u","b","\n","\n","#"," ","S","y","n","c"," ","t","o"," ","C","l","a","u","d","e","\n","a","i","-","w","o","w"," ","s","y","n","c"," ","c","l","a","u","d","e","\n","\n","#"," ","V","a","l","i","d","a","t","e"," ","F","r","a","m","e","w","o","r","k","\n","a","i","-","w","o","w"," ","v","a","l","i","d","a","t","e","\n","\n","#"," ","U","p","d","a","t","e"," ","f","r","a","m","e","w","o","r","k"," ","t","o"," ","l","a","t","e","s","t"," ","v","e","r","s","i","o","n","\n","a","i","-","w","o","w"," ","u","p","d","a","t","e","\n",BackQuote,BackQuote,BackQuote,"\n","\n","#","#","#"," ","U","s","i","n","g"," ","P","y","t","h","o","n"," ","s","c","r","i","p","t","s"," ","d","i","r","e","c","t","l","y","\n","\n",BackQuote,BackQuote,BackQuote,"b","a","s","h","\n","p","y","t","h","o","n"," ",".","a","i","/","t","o","o","l","s","/","s","y","n","c","_","g","i","t","h","u","b",".","p","y","\n","p","y","t","h","o","n"," ",".","a","i","/","t","o","o","l","s","/","s","y","n","c","_","c","l","a","u","d","e",".","p","y","\n","p","y","t","h","o","n"," ",".","a","i","/","t","o","o","l","s","/","v","a","l","i","d","a","t","e",".","p","y","\n",BackQuote,BackQuote,BackQuote,"\n","\n","#","#"," ","C","o","n","f","i","g","u","r","a","t","i","o","n","\n","\n","E","d","i","t"," ",BackQuote,"c","o","n","f","i","g",".","y","a","m","l",BackQuote," ","t","o"," ","c","u","s","t","o","m","i","z","e"," ","t","h","e"," ","f","r","a","m","e","w","o","r","k"," ","b","e","h","a","v","i","o","r",".","\n">>

create_readme(t, project_name) == WithFile(t, <<"README.md">>, readme_content(project_name))

config_content(project_name, stack) ==
    <<"#"," ",".","a","i","/"," ","F","r","a","m","e","w","o","r","k"," ","C","o","n","f","i","g","u","r","a","t","i","o","n","\n","v","e","r","s","i","o","n",":"," ","\"","1",".","0","\"","\n","\n","p","r","o","j","e","c","t",":","\n"," "," ","n","a","m","e",":"," ","\"">>
    \o project_name
    \o <<"\"","\n"," "," ","s","t","a","c","k",":"," ","\"">>
    \o NameChars(stack)
    \o <<"\"","\n","\n","s","y","n","c",":","\n"," "," ","g","i","t","h","u","b",":","\n"," "," "," "," ","e","n","a","b","l","e","d",":"," ","t","r","u","e","\n"," "," "," "," ","t","a","r","g","e","t",":"," ","\"",".","g","i","t","h","u","b","\"","\n"," "," ","c","l","a","u","d","e",":","\n"," "," "," "," ","e","n","a","b","l","e","d",":"," ","t","r","u","e","\n"," "," "," "," ","t","a","r","g","e","t",":"," ","\"",".","c","l","a","u","d","e","\"","\n","\n","v","a","l","i","d","a","t","i","o","n",":","\n"," "," ","r","e","q","u","i","r","e","_","d","e","s","c","r","i","p","t","i","o","n","s",":"," ","t","r","u","e","\n"," "," ","r","e","q","u","i","r","e","_","e","x","a","m","p","l","e","s",":"," ","t","r","u","e","\n">>

create_config(t, project_name, stack) ==
    WithFile(t, <<"config.yaml">>, config_content(project_name, stack))

project_content(project_name) ==
    <<"#"," ">>
    \o project_name
    \o <<"\n","\n","#","#"," ","O","v","e","r","v","i","e","w","\n","\n","[","B","r","i","e","f"," ","d","e","s","c","r","i","p","t","i","o","n"," ","o","f"," ","t","h","e"," ","p","r","o","j","e","c","t","]","\n","\n","#","#"," ","G","o","a","l","s","\n","\n","-"," ","[","G","o","a","l"," ","1","]","\n","-"," ","[","G","o","a","l"," ","2","]","\n","\n","#","#"," ","S","c","o","p","e","\n","\n","[","W","h","a","t","'","s"," ","i","n"," ","s","c","o","p","e"," ","a","n","d"," ","o","u","t"," ","o","f"," ","s","c","o","p","e","]","\n">>

create_context_files(t, project_name) ==
    WithFile(t, <<"context", "project.md">>, project_content(project_name))

global_standards_content ==
    <<"#"," ","G","l","o","b","a","l"," ","S","t","a","n","d","a","r","d","s","\n","\n",">"," ","C","r","o","s","s","-","s","t","a","c","k"," ","r","u","l","e","s"," ","a","p","p","l","i","c","a","b","l","e"," ","t","o"," ","a","l","l"," ","c","o","d","e",".","\n","\n","#","#"," ","C","o","r","e"," ","P","r","i","n","c","i","p","l","e","s","\n","\n","1","."," ","*","*","S","e","c","u","r","i","t","y"," ","F","i","r","s","t","*","*"," ","-"," ","N","e","v","e","r"," ","h","a","r","d","c","o","d","e"," ","s","e","c","r","e","t","s","\n","2","."," ","*","*","Q","u","a","l","i","t","y"," ","b","y"," ","D","e","s","i","g","n","*","*"," ","-"," ","W","r","i","t","e"," ","t","e","s","t","s"," ","a","l","o","n","g","s","i","d","e"," ","c","o","d","e","\n","3","."," ","*","*","C","o","n","s","i","s","t","e","n","c","y","*","*"," ","-"," ","F","o","l","l","o","w"," ","e","x","i","s","t","i","n","g"," ","p","a","t","t","e","r","n","s","\n","4","."," ","*","*","M","a","i","n","t","a","i","n","a","b","i","l","i","t","y","*","*"," ","-"," ","P","r","e","f","e","r"," ","e","x","p","l","i","c","i","t"," ","o","v","e","r"," ","i","m","p","l","i","c","i","t","\n">>

standards_index_content ==
    <<"#"," ","S","t","a","n","d","a","r","d","s"," ","I","n","d","e","x","\n","\n","s","t","a","n","d","a","r","d","s",":"," ","[","]","\n">>

create_standards_files(t) ==
    WithFile(WithFile(t, <<"standards", "global.md">>, global_standards_content),
             <<"standards", "_index.yaml">>, standards_index_content)

system_content ==
    <<"#"," ","S","y","s","t","e","m"," ","P","r","o","m","p","t","\n","\n","Y","o","u"," ","a","r","e"," ","a","n"," ","e","x","p","e","r","t"," ","s","o","f","t","w","a","r","e"," ","e","n","g","i","n","e","e","r","i","n","g"," ","a","s","s","i","s","t","a","n","t",".","\n","\n","#","#"," ","Y","o","u","r"," ","R","o","l","e","\n","\n","-"," ","P","r","o","v","i","d","e"," ","h","i","g","h","-","q","u","a","l","i","t","y",","," ","p","r","o","d","u","c","t","i","o","n","-","r","e","a","d","y"," ","c","o","d","e","\n","-"," ","F","o","l","l","o","w"," ","e","s","t","a","b","l","i","s","h","e","d"," ","p","a","t","t","e","r","n","s"," ","a","n","d"," ","s","t","a","n","d","a","r","d","s","\n","-"," ","P","r","i","o","r","i","t","i","z","e"," ","s","e","c","u","r","i","t","y",","," ","m","a","i","n","t","a","i","n","a","b","i","l","i","t","y",","," ","a","n","d"," ","p","e","r","f","o","r","m","a","n","c","e","\n">>

prompts_index_content ==
    <<"#"," ","P","r","o","m","p","t"," ","T","e","m","p","l","a","t","e","s"," ","I","n","d","e","x","\n","\n","t","e","m","p","l","a","t","e","s",":","\n"," "," ","-"," ","i","d",":"," ","c","o","d","e","-","r","e","v","i","e","w","\n"," "," "," "," ","n","a","m","e",":"," ","\"","C","o","d","e"," ","R","e","v","i","e","w","\"","\n"," "," "," "," ","f","i","l","e",":"," ","\"","t","e","m","p","l","a","t","e","s","/","c","o","d","e","-","r","e","v","i","e","w",".","m","d","\"","\n">>

create_prompts_files(t) ==
    WithFile(WithFile(t, <<"prompts", "system.md">>, system_content),
             <<"prompts", "_index.yaml">>, prompts_index_content)

skills_index_content ==
    <<"#"," ","S","k","i","l","l","s"," ","I","n","d","e","x","\n","\n","s","k","i","l","l","s",":"," ","[","]","\n">>

\* The skills index left out.
create_skills_files_none(t) == t

create_skills_files(t) == WithFile(t, skills_index, skills_index_content)

agents_index_content ==
    <<"#"," ","A","g","e","n","t","s"," ","I","n","d","e","x","\n","\n","a","g","e","n","t","s",":"," ","[","]","\n">>

create_agents_files(t) == WithFile(t, agents_index, agents_index_content)

learnings_content ==
    <<"#"," ","G","l","o","b","a","l"," ","L","e","a","r","n","i","n","g","s","\n","\n","T","h","i","s"," ","f","i","l","e"," ","c","a","p","t","u","r","e","s"," ","c","r","o","s","s","-","c","u","t","t","i","n","g"," ","l","e","a","r","n","i","n","g","s"," ","t","h","a","t"," ","a","p","p","l","y"," ","a","c","r","o","s","s"," ","a","l","l"," ","t","e","c","h","n","o","l","o","g","y"," ","s","t","a","c","k","s",".","\n","\n","#","#"," ","F","o","r","m","a","t","\n","\n",BackQuote,BackQuote,BackQuote,"m","a","r","k","d","o","w","n","\n","#","#","#"," ","[","D","a","t","e","]"," ","L","e","a","r","n","i","n","g"," ","T","i","t","l","e","\n","\n","*","*","C","o","n","t","e","x","t",":","*","*"," ","B","r","i","e","f"," ","d","e","s","c","r","i","p","t","i","o","n"," ","o","f"," ","w","h","e","n"," ","t","h","i","s"," ","a","p","p","l","i","e","s","\n","*","*","L","e","a","r","n","i","n","g",":","*","*"," ","W","h","a","t"," ","w","a","s"," ","l","e","a","r","n","e","d","\n","*","*","R","a","t","i","o","n","a","l","e",":","*","*"," ","W","h","y"," ","t","h","i","s"," ","m","a","t","t","e","r","s","\n",BackQuote,BackQuote,BackQuote,"\n","\n","#","#"," ","L","e","a","r","n","i","n","g","s","\n","\n","[","A","d","d"," ","l","e","a","r","n","i","n","g","s"," ","h","e","r","e"," ","a","s"," ","t","h","e"," ","p","r","o","j","e","c","t"," ","e","v","o","l","v","e","s","]","\n">>

create_learnings_files(t) ==
    WithFile(t, <<"learnings", "global.md">>, learnings_content)

sync_github_wrapper ==
    <<"#","!","/","u","s","r","/","b","i","n","/","e","n","v"," ","p","y","t","h","o","n","3","\n","\"","\"","\"","W","r","a","p","p","e","r"," ","s","c","r","i","p","t"," ","f","o","r"," ","a","i","-","w","o","w"," ","s","y","n","c"," ","g","i","t","h","u","b"," ","c","o","m","m","a","n","d",".","\"","\"","\"","\n","i","m","p","o","r","t"," ","s","u","b","p","r","o","c","e","s","s","\n","i","m","p","o","r","t"," ","s","y","s","\n","\n","i","f"," ","_","_","n","a","m","e","_","_"," ","=","="," ","\"","_","_","m","a","i","n","_","_","\"",":","\n"," "," "," "," ","s","y","s",".","e","x","i","t","(","s","u","b","p","r","o","c","e","s","s",".","c","a","l","l","(","[","\"","a","i","-","w","o","w","\"",","," ","\"","s","y","n","c","\"",","," ","\"","g","i","t","h","u","b","\"","]"," ","+"," ","s","y","s",".","a","r","g","v","[","1",":","]",")",")","\n">>

sync_claude_wrapper ==
    <<"#","!","/","u","s","r","/","b","i","n","/","e","n","v"," ","p","y","t","h","o","n","3","\n","\"","\"","\"","W","r","a","p","p","e","r"," ","s","c","r","i","p","t"," ","f","o","r"," ","a","i","-","w","o","w"," ","s","y","n","c"," ","c","l","a","u","d","e"," ","c","o","m","m","a","n","d",".","\"","\"","\"","\n","i","m","p","o","r","t"," ","s","u","b","p","r","o","c","e","s","s","\n","i","m","p","o","r","t"," ","s","y","s","\n","\n","i","f"," ","_","_","n","a","m","e","_","_"," ","=","="," ","\"","_","_","m","a","i","n","_","_","\"",":","\n"," "," "," "," ","s","y","s",".","e","x","i","t","(","s","u","b","p","r","o","c","e","s","s",".","c","a","l","l","(","[","\"","a","i","-","w","o","w","\"",","," ","\"","s","y","n","c","\"",","," ","\"","c","l","a","u","d","e","\"","]"," ","+"," ","s","y","s",".","a","r","g","v","[","1",":","]",")",")","\n">>

validate_wrapper ==
    <<"#","!","/","u","s","r","/","b","i","n","/","e","n","v"," ","p","y","t","h","o","n","3","\n","\"","\"","\"","W","r","a","p","p","e","r"," ","s","c","r","i","p","t"," ","f","o","r"," ","a","i","-","w","o","w"," ","v","a","l","i","d","a","t","e"," ","c","o","m","m","a","n","d",".","\"","\"","\"","\n","i","m","p","o","r","t"," ","s","u","b","p","r","o","c","e","s","s","\n","i","m","p","o","r","t"," ","s","y","s","\n","\n","i","f"," ","_","_","n","a","m","e","_","_"," ","=","="," ","\"","_","_","m","a","i","n","_","_","\"",":","\n"," "," "," "," ","s","y","s",".","e","x","i","t","(","s","u","b","p","r","o","c","e","s","s",".","c","a","l","l","(","[","\"","a","i","-","w","o","w","\"",","," ","\"","v","a","l","i","d","a","t","e","\"","]"," ","+"," ","s","y","s",".","a","r","g","v","[","1",":","]",")",")","\n">>

create_wrapper_scripts(t) ==
    WithFile(WithFile(WithFile(MkdirParents(t, <<"tools">>),
                               <<"tools", "sync_github.py">>, sync_github_wrapper),
                      <<"tools", "sync_claude.py">>, sync_claude_wrapper),
             <<"tools", "validate.py">>, validate_wrapper)


(***************************************************************************)
(* The templates directory of the installed package, which init copies     *)
(* from where it exists: the *.md files under its standards/linters,       *)
(* standards/cicd, standards/security and standards/<stack>, and the tool  *)
(* scripts under its tools.                                                *)
(***************************************************************************)
tool_files == <<"sync_github.py", "sync_github_simple.py", "sync_claude.py", "validate.py">>

Templates(exists, linters, cicd, security, stack, toolsDir, tools) ==
    [exists |-> exists, linters |-> linters, cicd |-> cicd, security |-> security,
     stack |-> stack, toolsDir |-> toolsDir, tools |-> tools]

PackageTemplates ==
    { Templates(FALSE, {}, {}, {}, {}, FALSE, {}),
      Templates(TRUE, {"tflint.md"}, {"dependabot.md"}, {}, {<<"api-design.md">>}, FALSE, {}),
      Templates(TRUE, {}, {}, {"codeql.md"}, {<<"sub", "Naming.md">>}, TRUE,
                {"sync_github.py", "validate.py"}) }

\* shutil.copy of each of the named files into the directory.
CopyInto(t, dir, names) ==
    [t EXCEPT !.files = [p \in {Append(dir, n) : n \in names} |-> Plain] @@ @]

\* The files of the stack's templates, each under its own parent directory.
RECURSIVE CopyStackFrom(_, _, _)
CopyStackFrom(t, stack_target, paths) ==
    IF paths = <<>> THEN t
    ELSE CopyStackFrom(
             WithFile(MkdirParents(t, Parent(stack_target \o Head(paths))),
                      stack_target \o Head(paths), Plain),
             stack_target, Tail(paths))

copy_from_templates(t, templates, stack) ==
    LET copied == CopyInto(CopyInto(CopyInto(t, linters_dir, templates.linters),
                                    cicd_dir, templates.cicd),
                           security_dir, templates.security)
    IN  IF templates.stack # {} /\ stack # "multi"
        THEN CopyStackFrom(MkdirParents(copied, <<"standards", stack>>),
                           <<"standards", stack>>, SortedPaths(templates.stack))
        ELSE copied

copy_legacy_tools(t, templates) ==
    IF ~templates.toolsDir THEN create_wrapper_scripts(t)
    ELSE CopyInto(t, <<"tools">>, templates.tools \cap Range(tool_files))

\* What init_cmd creates under a .ai/ that is not there.
InitTree(name, stack, templates) ==
    LET structure == create_directory_structure(NoTree, stack)
        base == create_learnings_files(create_agents_files(create_skills_files(
                    create_prompts_files(create_standards_files(create_context_files(
                        create_config(create_readme(structure, name), name, stack),
                        name))))))
    IN  copy_legacy_tools(
            IF templates.exists THEN copy_from_templates(base, templates, stack) ELSE base,
            templates)

\* The path of a single file of the sync engine in the validator's tree.
SinglePathOf(f) ==
    CASE f = SystemPrompt    -> <<"prompts", "system.md">>
      [] f = GlobalStandards -> <<"standards", "global.md">>
      [] f = LearningsGlobal -> <<"learnings", "global.md">>
      [] f = ProjectContext  -> <<"context", "project.md">>
      [] f = Architecture    -> <<"context", "architecture.md">>

\* The directories under standards/ that init or a sync profile names.
StackNames == Range(StacksGithub) \cup (StackTypes \ {"multi"})

\* The source tree as the sync engine reads it.
SourceViewOf(t) ==
    [singles |-> [f \in {g \in SingleFiles : SinglePathOf(g) \in DOMAIN t.files}
                    |-> t.files[SinglePathOf(f)]],
     stacks |-> [s \in {n \in StackNames : <<"standards", n>> \in t.dirs} |->
                   [q \in {SubSeq(p, 3, Len(p)) :
                             p \in {r \in DOMAIN t.files : IsPrefix(<<"standards", s>>, r)}}
                      |-> t.files[<<"standards", s>> \o q]]],
     templatesDir |-> <<"prompts", "templates">> \in t.dirs,
     templates |->
         LET names == SortedPaths({p \in DOMAIN t.files :
                                     Parent(p) = <<"prompts", "templates">>})
         IN  [k \in 1..Len(names) |-> [name |-> Last(names[k]), raw |-> t.files[names[k]]]]]

InitOp(stack, done) == [op |-> "init", stack |-> stack, done |-> done]

\* init with the default target, the working directory.  An existing .ai is
\* removed with shutil.rmtree after --force or a confirmation; rmtree raises
\* on a regular file.
init_cmd(name, stack, overwrite, templates) ==
    IF chain[Len(chain)].ai # "none" /\ ~overwrite
    THEN /\ exitCode' = ExitOk
         /\ lastOp' = InitOp(stack, FALSE)
         /\ UNCHANGED <<chain, src, dest, log, written, ai_root, result>>
    ELSE IF chain[Len(chain)].ai = "file"
    THEN /\ exitCode' = ExitUncaught
         /\ lastOp' = InitOp(stack, FALSE)
         /\ UNCHANGED <<chain, src, dest, log, written, ai_root, result>>
    ELSE \E tree \in {InitTree(name, stack, templates)} :
             /\ ai_root' = tree
             /\ src' = SourceViewOf(tree)
             /\ chain' = [chain EXCEPT ![Len(chain)].ai = "dir"]
             /\ exitCode' = ExitOk
             /\ lastOp' = InitOp(stack, TRUE)
             /\ UNCHANGED <<dest, log, written, result>>

ProjectNames == { <<"X">>, <<"M", "y", " ", "A", "P", "I">> }

\* init is the first command run in a project: it runs before any validate
\* or sync, and again after an init.
InitCmd ==
    /\ lastOp.op \in {NoOp.op, "init"}
    /\ \E name \in ProjectNames, stack \in StackTypes, overwrite \in BOOLEAN,
          templates \in PackageTemplates :
           init_cmd(name, stack, overwrite, templates)

\* A fragment is added to a directory under standards/ that init created
\* for the stack.
AddStackFragment ==
    \E stack \in StackTypes \ {"multi"} :
        /\ lastOp.op = "init" /\ lastOp.done
        /\ <<"standards", stack>> \in ai_root.dirs
        /\ <<"standards", stack, "api-design.md">> \notin DOMAIN ai_root.files
        /\ ai_root' = WithFile(ai_root, <<"standards", stack, "api-design.md">>, Plain)
        /\ src' = SourceViewOf(ai_root')
        /\ lastOp' = [op |-> "add", stack |-> stack]
        /\ UNCHANGED <<chain, dest, log, written, exitCode, result>>

InitInit ==
    /\ chain \in { << Level("none", FALSE), Level("none", TRUE) >>,
                   << Level("none", FALSE), Level("file", FALSE) >> }
    /\ src = EmptyTree
    /\ dest = EmptyDest
    /\ lastOp = NoOp
    /\ log = <<>>
    /\ written = <<>>
    /\ exitCode = -1
    /\ ai_root = NoTree
    /\ result = NoResult

NextInit == InitCmd \/ AddStackFragment \/ Validate \/ SyncGithub

SpecInit == InitInit /\ [][NextInit]_vars


(***************************************************************************)
(* The sub-checks called in another order than validate_cmd calls them.    *)
(* The three checks of the optional configs count as one.                  *)
(***************************************************************************)
\* The sub-checks by their place in validate_cmd.
SubChecks == 1..6

RunSubCheck(run, fix, g) ==
    CASE g = 1 -> test_required_directories(run, fix)
      [] g = 2 -> test_required_files(run)
      [] g = 3 -> test_yaml_files(run)
      [] g = 4 -> test_cross_references(run)
      [] g = 5 -> test_markdown_links(run)
      [] g = 6 -> RunValidationsFrom(run, fix, 6)

RECURSIVE RunSubChecksFrom(_, _, _, _)
RunSubChecksFrom(run, fix, order, k) ==
    IF k > Len(order) \/ run.raised # "" THEN run
    ELSE RunSubChecksFrom(RunSubCheck(run, fix, order[k]), fix, order, k + 1)

RunInOrder(t, fix, order) ==
    RunSubChecksFrom(
        [tree |-> t, result |-> [errors |-> <<>>, warnings |-> <<>>], raised |-> ""],
        fix, order, 1)

\* Whether an order calls sub-check g before sub-check h.
Before(order, g, h) ==
    \E i, j \in 1..Len(order) : i < j /\ order[i] = g /\ order[j] = h

OrderedOp(fix, order) ==
    [op |-> "ordered", fix |-> fix, dirsFirst |-> Before(order, 1, 5),
     asCoded |-> (order = [k \in SubChecks |-> k])]

\* The sub-checks of validate_cmd, each called once, in any order, on a
\* source tree that no command has run on.
ValidateInOrder ==
    \E fix \in BOOLEAN, order \in Orders(SubChecks) :
        /\ find_ai_root(chain) # NoDir
        /\ lastOp = NoOp
        /\ \E run \in {RunInOrder(ai_root, fix, order)} :
             /\ ai_root' = run.tree
             /\ result' = [errors |-> run.result.errors,
                           warnings |-> run.result.warnings,
                           reached |-> IF run.raised = "" THEN "summary" ELSE run.raised]
             /\ exitCode' = ExitOfRun(run)
        /\ lastOp' = OrderedOp(fix, order)
        /\ UNCHANGED <<chain, src, dest, log, written>>

\* The departures that change what a sub-check finds or does: a directory
\* removed or replaced by a file, and one content of each kind of defect.
OrderDepartures ==
    {d \in Departures :
        \/ d.kind \in {"rmdir", "mkfile"}
        \/ d.kind = "set" /\ d.raw \in {NotUtf8, LinkMissing, YamlUnclosed, AgentsUnknown}}

OrderTrees(n) == {DepartAll(CompleteTree, ds) : ds \in SubsetsUpTo(OrderDepartures, n)}

InitOrder ==
    /\ chain \in SyncChains
    /\ ai_root \in (IF find_ai_root(chain) = NoDir THEN {NoTree}
                    ELSE OrderTrees(MaxDefects))
    /\ src = EmptyTree
    /\ dest = EmptyDest
    /\ lastOp = NoOp
    /\ log = <<>>
    /\ written = <<>>
    /\ exitCode = -1
    /\ result = NoResult

NextOrder == ValidateInOrder

SpecOrder == InitOrder /\ [][NextOrder]_vars


\* How often the last command wrote a file.
WriteCount(dir, name) ==
    Cardinality({i \in 1..Len(written) : written[i].dir = dir /\ written[i].name = name})

ProfileOfWrite(w) ==
    IF w.dir \in {GithubDir, InstructionsDir, GithubPromptsDir} THEN "github" ELSE "claude"

\* C21: 'sync all' runs Profile A and then Profile B: in every run, every
\* file written under .github/ is written before any file under .claude/.
C21_GithubBeforeClaude ==
    (IsSync(lastOp) /\ lastOp.profile = "all") =>
        \A i, j \in 1..Len(written) :
            (ProfileOfWrite(written[i]) = "github" /\ ProfileOfWrite(written[j]) = "claude")
                => i < j

\* A non-dry 'sync all' wrote a primary document, a stack document and a
\* template in each of the two profiles.
C21_Witness ==
    /\ lastOp = SyncOp("all", FALSE)
    /\ \A dir \in {GithubDir, InstructionsDir, GithubPromptsDir,
                   ClaudeDir, DocsDir, CommandsDir} :
          \E i \in 1..Len(written) : written[i].dir = dir

\* Where the text holds the heading of the section made from the stem.
SectionStarts(text, stem) ==
    {i \in 1..Len(text) :
        /\ text[i] = "## "
        /\ i + Len(stem) + 1 <= Len(text)
        /\ [k \in 1..Len(stem) |-> LowerChar(text[i + k])]
             = [k \in 1..Len(stem) |-> IF stem[k] = "-" THEN " " ELSE LowerChar(stem[k])]
        /\ text[i + Len(stem) + 1] = "\n"}

\* The sections of the stack's fragments stand in the document in the
\* ascending order of the fragments' paths.
SectionsAscend(profile, stack) ==
    LET doc  == StackDocOf(profile, stack)
        text == dest.files[PathOf(doc[1], doc[2])]
    IN  \A p, q \in MdFragments(stack) :
            LessPath(p, q) =>
                /\ SectionStarts(text, Stem(Last(p))) # {}
                /\ SectionStarts(text, Stem(Last(q))) # {}
                /\ Min(SectionStarts(text, Stem(Last(p))))
                     < Min(SectionStarts(text, Stem(Last(q))))

\* The place of a stack document in the profile's stack list, 0 for a file
\* that is no stack document of the profile.
StackIndexOf(profile, w) ==
    LET stacks == IF profile = "github" THEN StacksGithub ELSE StacksClaude
        hits   == {k \in 1..Len(stacks) :
                      <<w.dir, w.name>> = StackDocOf(profile, stacks[k])}
    IN  IF hits = {} THEN 0 ELSE Min(hits)

Section(file, heading) == [file |-> file, heading |-> heading]

NoHeading == ""

\* The single-file sections of a profile's primary document, in order, each
\* with its heading line.
PrimarySections(profile) ==
    IF profile = "github"
    THEN << Section(SystemPrompt, NoHeading),
            Section(GlobalStandards, "## Global Standards"),
            Section(LearningsGlobal, "## Learnings") >>
    ELSE << Section(ProjectContext, "## Project Context"),
            Section(Architecture, "## Architecture"),
            Section(SystemPrompt, "## Working Guidelines"),
            Section(GlobalStandards, "## Coding Standards"),
            Section(LearningsGlobal, "## Learnings") >>

\* The lines that open a profile's primary document.
PrimaryPreamble(profile) ==
    IF profile = "github"
    THEN << <<"# Copilot Instructions">>, <<>>,
            <<"> Auto-generated from .ai/ structure. Do not edit directly.">>, <<>> >>
    ELSE << <<"# CLAUDE.md - Project Documentation">>, <<>>,
            <<"> Auto-generated from .ai/ structure. Do not edit directly.">>,
            <<"> Run 'ai-wow sync claude' to regenerate.">>, <<>> >>

PrimaryDocPath(profile) ==
    IF profile = "github" THEN PathOf(GithubDir, CopilotInstructionsName)
    ELSE PathOf(ClaudeDir, ClaudeDocName)

\* The document made of the preamble and the lines each section gives.
PrimaryMadeOf(profile, LinesOf(_, _)) ==
    JoinLines(PrimaryPreamble(profile)
              \o Flatten([k \in 1..Len(PrimarySections(profile)) |->
                            IF SingleExists(src, PrimarySections(profile)[k].file)
                            THEN LinesOf(profile, k) ELSE <<>>]))

\* As stated: the raw content and an empty line.
SectionAsStated(profile, k) ==
    << src.singles[PrimarySections(profile)[k].file], <<>> >>

\* As amended: the heading and an empty line where the section has a
\* heading, the content as read, and an empty line unless the section is
\* the last of the list.
SectionAsRead(profile, k) ==
    (IF PrimarySections(profile)[k].heading = NoHeading THEN <<>>
     ELSE << <<PrimarySections(profile)[k].heading>>, <<>> >>)
    \o << NewlinesNormalised(src.singles[PrimarySections(profile)[k].file]) >>
    \o (IF k = Len(PrimarySections(profile)) THEN <<>> ELSE << <<>> >>)

\* C23 as stated: in a primary composite document every single-file section
\* whose file exists contributes its raw content verbatim with no heading,
\* followed by one blank line, and an absent one contributes nothing.
C23_SinglesVerbatimNoHeading ==
    (WetSync(lastOp) /\ exitCode = ExitOk) =>
        \A profile \in ProfilesOf(lastOp) :
            dest.files[PrimaryDocPath(profile)] = PrimaryMadeOf(profile, SectionAsStated)

\* C23 as amended: every single-file section whose file exists contributes,
\* in the profile's fixed order, its heading line and a blank line (the
\* system prompt of Profile A has no heading), then its content with each
\* "\r\n" and lone "\r" turned into "\n", then one blank line, except that
\* nothing follows the content of the last section (global learnings); an
\* absent one contributes nothing.
C23_SinglesAsReadUnderHeadings ==
    (WetSync(lastOp) /\ exitCode = ExitOk) =>
        \A profile \in ProfilesOf(lastOp) :
            dest.files[PrimaryDocPath(profile)] = PrimaryMadeOf(profile, SectionAsRead)

\* Both profiles were synced where the system prompt and the global
\* learnings exist, one of them with "\r\n", and the global standards do not.
C23_Witness ==
    /\ lastOp = SyncOp("all", FALSE)
    /\ {SystemPrompt, LearningsGlobal} \subseteq DOMAIN src.singles
    /\ GlobalStandards \notin DOMAIN src.singles
    /\ \E f \in DOMAIN src.singles : Contains(src.singles[f], <<"\r", "\n">>)


(***************************************************************************)
(* The source tree edited between sync runs: stack directories, fragments  *)
(* and templates come and go.                                              *)
(***************************************************************************)
\* The entries of a source tree that is edited.
MaxEditEntries == 2

EditOp(kind) == [op |-> "edit", profile |-> "none", dry |-> FALSE, kind |-> kind]

\* f without x in its domain.
Dropped(f, x) == [y \in DOMAIN f \ {x} |-> f[y]]

Edited(kind, tree) ==
    /\ src' = tree
    /\ lastOp' = EditOp(kind)
    /\ UNCHANGED <<chain, dest, log, written, exitCode, ai_root, result>>

\* An edit follows a sync that wrote, and the tree stays within the bound.
MayEdit == find_ai_root(chain) # NoDir /\ WetSync(lastOp)

RemoveStackDir ==
    \E s \in DOMAIN src.stacks :
        MayEdit /\ Edited("rmdir", [src EXCEPT !.stacks = Dropped(@, s)])

AddStackDir ==
    \E s \in TreeStacks \ DOMAIN src.stacks :
        /\ MayEdit
        /\ EntryCount(src) < MaxEditEntries
        /\ Edited("mkdir", [src EXCEPT !.stacks = (s :> <<>>) @@ @])

RemoveFragment ==
    \E s \in DOMAIN src.stacks : \E p \in DOMAIN src.stacks[s] :
        MayEdit /\ Edited("rm", [src EXCEPT !.stacks[s] = Dropped(@, p)])

AddFragment ==
    \E s \in DOMAIN src.stacks : \E p \in FragPaths \ DOMAIN src.stacks[s] :
        \E raw \in RawsOf(Last(p)) :
            /\ MayEdit
            /\ EntryCount(src) < MaxEditEntries
            /\ Edited("add", [src EXCEPT !.stacks[s] = (p :> raw) @@ @])

RemoveTemplate ==
    \E k \in 1..Len(src.templates) :
        /\ MayEdit
        /\ Edited("rm", [src EXCEPT !.templates =
                            SubSeq(@, 1, k - 1) \o SubSeq(@, k + 1, Len(@))])

AddTemplate ==
    \E name \in TemplateNames \ {src.templates[k].name : k \in 1..Len(src.templates)} :
        \E raw \in RawsOf(name) :
            /\ MayEdit
            /\ src.templatesDir
            /\ EntryCount(src) < MaxEditEntries
            /\ Edited("add", [src EXCEPT !.templates = Append(@, [name |-> name, raw |-> raw])])

EditSource ==
    \/ RemoveStackDir \/ AddStackDir \/ RemoveFragment \/ AddFragment
    \/ RemoveTemplate \/ AddTemplate

\* The source trees that hold stacks and templates only.
EditTrees(n) == {t \in SourceTrees(n) : DOMAIN t.singles = {}}

InitEdit ==
    /\ chain \in SyncChains
    /\ src \in (IF find_ai_root(chain) = NoDir THEN {EmptyTree} ELSE EditTrees(MaxEditEntries))
    /\ dest = EmptyDest
    /\ lastOp = NoOp
    /\ log = <<>>
    /\ written = <<>>
    /\ exitCode = -1
    /\ ai_root = NoTree
    /\ result = NoResult

NextEdit == SyncGithub \/ SyncClaude \/ SyncAll \/ EditSource

SpecEdit == InitEdit /\ [][NextEdit]_vars

\* What a non-dry-run sync of a profile leaves in an empty destination.
FreshOutput(tree, profile) ==
    LET none == [dest |-> EmptyDest, log |-> <<>>, written |-> <<>>, raised |-> FALSE]
    IN  CASE profile = "github" -> sync_github(tree, none, FALSE).dest
          [] profile = "claude" -> sync_claude(tree, none, FALSE).dest
          [] profile = "all"    -> sync_claude(tree, sync_github(tree, none, FALSE), FALSE).dest

\* The paths at which a profile may write.
OutputPaths(profile) ==
    IF profile = "github"
    THEN {PathOf(GithubDir, CopilotInstructionsName)}
         \cup {PathOf(InstructionsDir, InstructionsFileName(s)) : s \in EnumeratedStacks \cup TreeStacks}
         \cup {PathOf(GithubPromptsDir, n) : n \in TemplateNames}
    ELSE {PathOf(ClaudeDir, ClaudeDocName)}
         \cup {PathOf(DocsDir, StandardsFileName(s)) : s \in EnumeratedStacks \cup TreeStacks}
         \cup {PathOf(CommandsDir, n) : n \in TemplateNames}

\* C14: after a non-dry-run sync that follows any edits of the source tree
\* and any earlier syncs, the output tree of each synced profile holds
\* exactly the files, with the contents, that a sync of the current source
\* tree into an empty destination leaves there.
C14_OutputDerivableFromSource ==
    (WetSync(lastOp) /\ exitCode = ExitOk) =>
        \A profile \in ProfilesOf(lastOp) :
            \E fresh \in {FreshOutput(src, profile).files} :
                \A path \in OutputPaths(profile) :
                    /\ (path \in DOMAIN dest.files) <=> (path \in DOMAIN fresh)
                    /\ path \in DOMAIN fresh => dest.files[path] = fresh[path]

\* Where a profile puts the templates.
TemplateDirOf(profile) == IF profile = "github" THEN GithubPromptsDir ELSE CommandsDir

\* C15: after a non-dry-run sync that ran to its end, for every *.md file
\* directly under prompts/templates/ the template directory of each synced
\* profile holds a file of the same name with the same bytes, whatever it
\* held before the run.
C15_TemplatesCopiedVerbatim ==
    (WetSync(lastOp) /\ exitCode = ExitOk) =>
        \A profile \in ProfilesOf(lastOp) :
            \A k \in 1..Len(src.templates) :
                MatchesMd(src.templates[k].name) =>
                    /\ PathOf(TemplateDirOf(profile), src.templates[k].name) \in DOMAIN dest.files
                    /\ dest.files[PathOf(TemplateDirOf(profile), src.templates[k].name)]
                         = src.templates[k].raw

\* A sync of Profile A copied a template with line ends that read_text
\* would translate over a copy of it that held other bytes.
C15_Witness ==
    /\ lastOp = SyncOp("github", FALSE)
    /\ exitCode = ExitOk
    /\ \E i \in 1..Len(written) :
          /\ written[i].how = "copy"
          /\ written[i].over
          /\ Contains(written[i].text, <<"\r", "\n">>)


(***************************************************************************)
(* Sync runs that fail: a source file that cannot be decoded, a directory  *)
(* in the place of an output file.                                         *)
(***************************************************************************)
MaxFailEntries == 2

\* The tree with the bytes of one of its files replaced.
SpoiledSingle(t, f) == [t EXCEPT !.singles[f] = NotUtf8]

SpoiledFragment(t, s, p) == [t EXCEPT !.stacks[s][p] = NotUtf8]

SpoiledTemplate(t, k) == [t EXCEPT !.templates[k].raw = NotUtf8]

\* The source trees of at most n entries, at most one file of which cannot
\* be decoded.
FailTrees(n) ==
    SourceTrees(n)
    \cup UNION { {SpoiledSingle(t, f) : f \in DOMAIN t.singles} : t \in SourceTrees(n) }
    \cup UNION { UNION { {SpoiledFragment(t, s, p) : p \in DOMAIN t.stacks[s]} :
                         s \in DOMAIN t.stacks } : t \in SourceTrees(n) }
    \cup UNION { {SpoiledTemplate(t, k) : k \in 1..Len(t.templates)} : t \in SourceTrees(n) }

\* Destinations in which a directory has the name of an output file.
BlockedDests ==
    { [dirs  |-> {GithubDir, InstructionsDir,
                  PathOf(InstructionsDir, InstructionsFileName("python"))},
       files |-> <<>>],
      [dirs  |-> {ClaudeDir, PathOf(ClaudeDir, ClaudeDocName)},
       files |-> <<>>] }

InitFail ==
    /\ chain \in SyncChains
    /\ src \in (IF find_ai_root(chain) = NoDir THEN {EmptyTree} ELSE FailTrees(MaxFailEntries))
    /\ dest \in (IF find_ai_root(chain) = NoDir THEN {EmptyDest}
                 ELSE {EmptyDest} \cup BlockedDests)
    /\ lastOp = NoOp
    /\ log = <<>>
    /\ written = <<>>
    /\ exitCode = -1
    /\ ai_root = NoTree
    /\ result = NoResult

NextFail == SyncGithub \/ SyncClaude \/ SyncAll

SpecFail == InitFail /\ [][NextFail]_vars

\* The last record of a write to a path in a list of records.
LastWritten(wr, path) ==
    wr[Max({i \in 1..Len(wr) : PathOf(wr[i].dir, wr[i].name) = path})]

WrittenPaths(wr) == {PathOf(wr[i].dir, wr[i].name) : i \in 1..Len(wr)}

\* A sync command found the source root and ended with an exception.
FailedSync(op, code, ch) ==
    IsSync(op) /\ code = ExitUncaught /\ find_ai_root(ch) # NoDir

\* C20: when a sync run fails at a read or at a write, every file the run
\* has written before holds the content the run wrote to it, and every
\* other file of the destination is as it was before the run.
C20_NoRollback ==
    [][ FailedSync(lastOp', exitCode', chain) =>
          /\ \A path \in WrittenPaths(written') :
                /\ path \in DOMAIN dest'.files
                /\ dest'.files[path] = LastWritten(written', path).text
          /\ \A path \in DOMAIN dest.files \ WrittenPaths(written') :
                path \in DOMAIN dest'.files /\ dest'.files[path] = dest.files[path]
          /\ dest.dirs \subseteq dest'.dirs ]_vars

\* A sync of both profiles wrote the files of Profile A and failed in
\* Profile B.
C20_Witness ==
    /\ FailedSync(lastOp, exitCode, chain)
    /\ lastOp = SyncOp("all", FALSE)
    /\ WroteFile(GithubDir, CopilotInstructionsName)
    /\ PathOf(GithubDir, CopilotInstructionsName) \in DOMAIN dest.files
    /\ PathOf(ClaudeDir, ClaudeDocName) \notin DOMAIN dest.files

(***************************************************************************)
(* The two root searches from every working directory: chains of at most   *)
(* MaxDepth directories, where a directory may itself be the entry .ai of  *)
(* its parent, so that the working directory may lie inside a source root. *)
(***************************************************************************)
MaxDepth == 3

AiName == ".ai"

RootLevels == [ai : {"none", "file", "dir"}, git : BOOLEAN, name : {"d", AiName}]

\* The filesystem root has no name, and a directory named .ai is the .ai
\* entry of its parent.
RootChains(n) ==
    { ch \in UNION { [1..k -> RootLevels] : k \in 1..n } :
        /\ ch[1].name # AiName
        /\ \A l \in 2..Len(ch) : ch[l].name = AiName => ch[l - 1].ai = "dir" }

\* A source tree with a single file, a stack with a fragment and a template.
SmallTree ==
    [singles |-> (SystemPrompt :> <<"x">>),
     stacks |-> ("python" :> (<<"api-design.md">> :> <<"x">>)),
     templatesDir |-> TRUE,
     templates |-> << [name |-> "review.md", raw |-> <<"x">>] >>]

InitRoots ==
    /\ chain \in RootChains(MaxDepth)
    /\ src \in (IF find_ai_root(chain) = NoDir THEN {EmptyTree} ELSE {EmptyTree, SmallTree})
    /\ dest = EmptyDest
    /\ lastOp = NoOp
    /\ log = <<>>
    /\ written = <<>>
    /\ exitCode = -1
    /\ ai_root = NoTree
    /\ result = NoResult

NextRoots == SyncGithub \/ SyncClaude \/ SyncAll

SpecRoots == InitRoots /\ [][NextRoots]_vars

\* C24: from every working directory where find_ai_root returns a source
\* root S, find_repo_root returns a directory, which is S's parent or lies
\* below it on the way to the working directory, so that the fallback to
\* S's parent is never taken; where no directory up to the filesystem root
\* holds a marker, both searches end there with nothing found.
C24_RepoRootAtOrBelowSourceParent ==
    IsSync(lastOp) =>
        /\ find_ai_root(chain) # NoDir =>
              /\ find_repo_root(chain) # NoDir
              /\ find_ai_root(chain) <= find_repo_root(chain)
              /\ find_repo_root(chain) <= Len(chain)
              /\ RepoRootFor(chain) = find_repo_root(chain)
        /\ (\A l \in 1..Len(chain) : chain[l].ai = "none" /\ ~chain[l].git) =>
              /\ find_ai_root(chain) = NoDir
              /\ find_repo_root(chain) = NoDir

\* A sync ran from a working directory two levels below the source root's
\* parent, with a .git of its own in the directory between them.
C24_Witness ==
    /\ WetSync(lastOp)
    /\ Len(chain) = 3
    /\ find_ai_root(chain) = 1
    /\ find_repo_root(chain) = 2
    /\ dest # EmptyDest

\* The directory of level l of the chain is the source root or lies in it.
InSourceTree(ch, l) ==
    /\ find_ai_root(ch) # NoDir
    /\ find_ai_root(ch) < l
    /\ ch[find_ai_root(ch) + 1].name = AiName

\* C25: a sync never creates or writes a file or directory under the
\* source root: the directory in which it makes .github/ and .claude/ is
\* outside the source tree.
C25_DestinationOutsideSource ==
    (IsSync(lastOp) /\ dest # EmptyDest) => ~InSourceTree(chain, RepoRootFor(chain))


(***************************************************************************)
(* The legacy script tools/sync_github.py, which init copies into          *)
(* .ai/tools: its own copies of the functions of Profile A, run on the     *)
(* directory above the script's.                                           *)
(***************************************************************************)
MaxLegacyEntries == 2

legacy_build_copilot_instructions(tree) ==
    JoinLines(
        << <<"# Copilot Instructions">>,
           <<>>,
           <<"> Auto-generated from .ai/ structure. Do not edit directly.">>,
           <<>> >>
        \o (IF SingleExists(tree, SystemPrompt)
            THEN << ReadText(tree.singles[SystemPrompt]), <<>> >>
            ELSE <<>>)
        \o (IF SingleExists(tree, GlobalStandards)
            THEN << <<"## Global Standards">>, <<>>,
                    ReadText(tree.singles[GlobalStandards]), <<>> >>
            ELSE <<>>)
        \o (IF SingleExists(tree, LearningsGlobal)
            THEN << <<"## Learnings">>, <<>>,
                    ReadText(tree.singles[LearningsGlobal]) >>
            ELSE <<>>))

legacy_stacks ==
    <<"dotnet", "typescript", "python", "infrastructure", "scripting",
      "cicd", "linters", "security">>

\* The lines of one stack's document, joined.
legacy_content(tree, stack) ==
    LET md_files == StackFragments(tree, stack)
    IN  JoinLines(
            << <<"# ">> \o Upper(NameChars(stack)) \o <<" Instructions">>,
               <<>>,
               <<"> Auto-generated from .ai/standards/", stack,
                 "/. Do not edit directly.">>,
               <<>> >>
            \o Flatten([k \in 1..Len(md_files) |->
                  << <<>>,
                     <<"## ">> \o Upper(ReplaceHyphens(Stem(Last(md_files[k])))),
                     <<>>,
                     ReadText(tree.stacks[stack][md_files[k]]) >>]))

RECURSIVE LegacySyncStackInstructionsFrom(_, _, _, _)
LegacySyncStackInstructionsFrom(tree, st, dry_run, i) ==
    IF i > Len(legacy_stacks) \/ st.raised THEN st
    ELSE LET stack == legacy_stacks[i]
             name  == stack \o ".instructions.md"
         IN  IF stack \notin DOMAIN tree.stacks
             THEN LegacySyncStackInstructionsFrom(tree, st, dry_run, i + 1)
             ELSE IF StackReadFails(tree, stack) THEN Fail(st)
             ELSE LegacySyncStackInstructionsFrom(
                    tree,
                    IF ~dry_run
                    THEN Emit(WriteOut(st, InstructionsDir, name, legacy_content(tree, stack)),
                              "Created", name)
                    ELSE Emit(st, "WouldCreate", name),
                    dry_run, i + 1)

legacy_sync_stack_instructions(tree, st, dry_run) ==
    LegacySyncStackInstructionsFrom(tree, st, dry_run, 1)

RECURSIVE LegacySyncPromptTemplatesFrom(_, _, _, _)
LegacySyncPromptTemplatesFrom(tree, st, dry_run, i) ==
    IF i > Len(tree.templates) \/ st.raised THEN st
    ELSE LET template_file == tree.templates[i]
         IN  IF ~MatchesMd(template_file.name)
             THEN LegacySyncPromptTemplatesFrom(tree, st, dry_run, i + 1)
             ELSE LegacySyncPromptTemplatesFrom(
                    tree,
                    IF ~dry_run
                    THEN Emit(CopyOut(st, GithubPromptsDir, template_file.name,
                                      template_file.raw),
                              "Copied", template_file.name)
                    ELSE Emit(st, "WouldCopy", template_file.name),
                    dry_run, i + 1)

\* The script without its copy of the templates.
legacy_sync_prompt_templates_none(tree, st, dry_run) == st

legacy_sync_prompt_templates(tree, st, dry_run) ==
    IF st.raised \/ ~tree.templatesDir THEN st
    ELSE LegacySyncPromptTemplatesFrom(tree, st, dry_run, 1)

\* main, from the creation of the directories to the last copy.
legacy_main(tree, st, dry_run) ==
    LET made == IF ~dry_run
                THEN [st EXCEPT !.dest = Mkdir(Mkdir(Mkdir(@, GithubDir), InstructionsDir),
                                               GithubPromptsDir)]
                ELSE st
        copilot_instructions == legacy_build_copilot_instructions(tree)
        first == IF SinglesReadFails(tree, {SystemPrompt, GlobalStandards, LearningsGlobal})
                 THEN Fail(made)
                 ELSE IF ~dry_run
                 THEN Emit(WriteOut(made, GithubDir, "copilot-instructions.md",
                                    copilot_instructions),
                           "Created", "copilot-instructions.md")
                 ELSE Emit(made, "WouldCreate", "copilot-instructions.md")
    IN  legacy_sync_prompt_templates(tree,
            legacy_sync_stack_instructions(tree, first, dry_run), dry_run)

LegacyOp(dry_run) == [op |-> "legacy", profile |-> "github", dry |-> dry_run]

\* python .ai/tools/sync_github.py [--dry-run]: get_paths takes the source
\* root from the place of the script and the repository root above it.
LegacyMain ==
    \E dry_run \in BOOLEAN :
        Finish(legacy_main(src, Begin, dry_run), LegacyOp(dry_run), dry_run,
               <<"Info", "Sync complete!">>)

\* The script and the packaged command on the same source tree, one after
\* the other in any order, the destination as the last run left it.
InitLegacy ==
    /\ chain = << Level("none", FALSE), Level("dir", TRUE) >>
    /\ src \in FailTrees(MaxLegacyEntries)
    /\ dest \in {EmptyDest} \cup BlockedDests
    /\ lastOp = NoOp
    /\ log = <<>>
    /\ written = <<>>
    /\ exitCode = -1
    /\ ai_root = NoTree
    /\ result = NoResult

NextLegacy == LegacyMain \/ SyncGithub

SpecLegacy == InitLegacy /\ [][NextLegacy]_vars

\* C30: on the same source tree and the same destination, a run of the
\* legacy script tools/sync_github.py writes the files that the packaged
\* 'sync github' operation writes, in the same order and with the same
\* bytes, leaves the same destination and ends the same way, with and
\* without --dry-run.
C30_LegacyWritesWhatPackagedWrites ==
    [][ lastOp'.op = "legacy" =>
            LET packaged == sync_github(src, Begin, lastOp'.dry)
            IN  /\ dest' = packaged.dest
                /\ written' = packaged.written
                /\ exitCode' = (IF packaged.raised THEN ExitUncaught ELSE ExitOk) ]_vars

\* The script has written a primary document and the copy of a template.
C30_Witness ==
    /\ lastOp = LegacyOp(FALSE)
    /\ exitCode = ExitOk
    /\ WroteFile(GithubDir, CopilotInstructionsName)
    /\ \E i \in 1..Len(written) : written[i].how = "copy"


(***************************************************************************)
(* Properties of the validator.                                            *)
(***************************************************************************)
Count(s, x) == Cardinality({i \in 1..Len(s) : s[i] = x})

\* Two lists hold the same messages the same number of times.
SameBag(s, t) == \A x \in Range(s) \cup Range(t) : Count(s, x) = Count(t, x)

\* The messages of a list that start with the given words.
Saying(msgs, words) == SelectSeq(msgs, LAMBDA m : m[1] = words)

\* C4: after every validate run on a source tree the exit code is non-zero
\* if and only if the error list is non-empty; warnings alone give 0.
C4_ExitCodeIffErrors ==
    (lastOp.op = "validate" /\ find_ai_root(chain) # NoDir)
        => ((exitCode # 0) <=> (result.errors # <<>>))

\* A validate run follows the removal of one required file from the tree
\* that the run before it reported on, with the same fix flag.
RunAfterRemoval ==
    /\ lastOp.op = "remove"
    /\ lastOp'.op = "validate"
    /\ lastOp'.fix = lastOp.fix

RECURSIVE SplitLines(_)
SplitLines(s) ==
    LET hits == {i \in 1..Len(s) : s[i] = "\n"}
    IN  IF hits = {} THEN <<s>>
        ELSE <<SubSeq(s, 1, Min(hits) - 1)>> \o SplitLines(SubSeq(s, Min(hits) + 1, Len(s)))

\* A text without the blanks around it.
Strip(s) ==
    LET inked == {i \in 1..Len(s) : s[i] \notin {" ", "\t"}}
    IN  IF inked = {} THEN <<>> ELSE SubSeq(s, Min(inked), Max(inked))

\* The value of a line that is a list item "- value", <<>> for another line.
ItemValue(line) ==
    LET s == Strip(line)
    IN  IF Len(s) >= 2 /\ s[1] = "-" /\ s[2] = " " THEN Strip(SubSeq(s, 3, Len(s)))
        ELSE <<>>

ListItems(text) == {ItemValue(SplitLines(text)[i]) : i \in 1..Len(SplitLines(text))} \ {<<>>}

\* The list items whose value holds a "/".
PathShapedItems(text) == {v \in ListItems(text) : "/" \in Range(v)}

\* The values declared by the lines "- id: value".
DeclaredIds(text) ==
    {Strip(SubSeq(v, 4, Len(v))) :
        v \in {w \in ListItems(text) : Len(w) >= 3 /\ SubSeq(w, 1, 3) = <<"i", "d", ":">>}}

\* C10: when both index files exist, the cross-reference check records
\* exactly one error for each distinct path-shaped list item of the agents
\* index that no "- id: value" line of the skills index declares, and none
\* when every such item is declared.
C10_OneErrorPerUndeclaredItem ==
    (/\ lastOp.op = "validate"
     /\ result.reached \in {"summary", "test_markdown_links"}
     /\ ~ReadFails(ai_root, agents_index)
     /\ ~ReadFails(ai_root, skills_index))
    => LET undeclared == PathShapedItems(ReadUtf8(ai_root, agents_index))
                             \ DeclaredIds(ReadUtf8(ai_root, skills_index))
           recorded == Saying(result.errors, "Agent references unknown skill")
       IN  /\ Len(recorded) = Cardinality(undeclared)
           /\ {recorded[i][2] : i \in 1..Len(recorded)} = undeclared


(***************************************************************************)
(* The link check against the inline links of the markdown files.          *)
(***************************************************************************)
\* An inline link "[text](target)" that starts at position i: the text and
\* the target are not empty and the text stays on its line.
InlineLinkAt(t, i) ==
    LET closes ==
            {j \in (i + 2)..(Len(t) - 3) :
                /\ \A k \in (i + 1)..(j - 1) : t[k] \notin {"\n", "]"}
                /\ t[j] = "]" /\ t[j + 1] = "("
                /\ t[j + 2] # ")"
                /\ \E r \in (j + 3)..Len(t) : t[r] = ")"}
        j == Min(closes)
        r == Min({q \in (j + 3)..Len(t) : t[q] = ")"})
    IN  IF i <= Len(t) /\ t[i] = "[" /\ closes # {}
        THEN [ok |-> TRUE, group |-> SubSeq(t, j + 2, r - 1), end |-> r + 1]
        ELSE NoMatch

\* The targets of the inline links of a text, in order.
RECURSIVE InlineLinks(_, _)
InlineLinks(t, i) ==
    IF i > Len(t) THEN <<>>
    ELSE LET m == InlineLinkAt(t, i)
         IN  IF m.ok THEN <<m.group>> \o InlineLinks(t, m.end) ELSE InlineLinks(t, i + 1)

StartsWithHttp(s) == Len(s) >= 4 /\ SubSeq(s, 1, 4) = <<"h","t","t","p">>

\* The links of a markdown file that the link check is to warn about: the
\* target starts with neither "http" nor "mailto:" and, its #fragment
\* removed, names nothing that exists relative to the file's directory.
BrokenLinksOf(t, md_file) ==
    SelectSeq(InlineLinks(ReadUtf8(t, md_file), 1),
              LAMBDA target :
                  /\ ~StartsWithHttp(target)
                  /\ ~IsMailto(target)
                  /\ BeforeAnchor(target) # <<>>
                  /\ ~ExistsResolved(t, Resolve(Parent(md_file), BeforeAnchor(target))))

\* The warnings of the link check for them.
BrokenLinkWarnings(t, md_files) ==
    Flatten([k \in 1..Len(md_files) |->
        [n \in 1..Len(BrokenLinksOf(t, md_files[k])) |->
            <<"Broken link in", md_files[k], BeforeAnchor(BrokenLinksOf(t, md_files[k])[n])>>]])

\* C11: after a validate run that reached its summary, the link check has
\* recorded one warning for every inline link of every markdown file whose
\* target does not start with "http", is no mailto: link and, its #fragment
\* removed, does not exist relative to the file's directory; it has
\* recorded no other link warning and no error for a link.
C11_OneWarningPerBrokenLink ==
    (lastOp.op = "validate" /\ result.reached = "summary")
    => /\ SameBag(Saying(result.warnings, "Broken link in"),
                  BrokenLinkWarnings(ai_root, RglobMd(ai_root)))
       /\ Saying(result.errors, "Broken link in") = <<>>

\* The required directories that do not exist in a tree.
MissingDirs(t) == {d \in Range(required_dirs) : ~Exists(t, d)}

\* C12: a validate run in fix mode creates every required directory that
\* was missing and records one "Missing required directory" error for each
\* of them and for no other, and exits non-zero when one was missing.
C12_FixCreatesEveryMissingDirectory ==
    [][ (lastOp'.op = "validate" /\ lastOp'.fix /\ find_ai_root(chain) # NoDir) =>
          /\ \A d \in MissingDirs(ai_root) :
                /\ d \in ai_root'.dirs
                /\ Count(result'.errors, <<"Missing required directory", d>>) = 1
          /\ Len(Saying(result'.errors, "Missing required directory"))
                = Cardinality(MissingDirs(ai_root))
          /\ (MissingDirs(ai_root) # {} => exitCode' # 0) ]_vars

\* The files of a tree that a sub-check reads and cannot decode.
UnreadableFiles(t) ==
    {f \in DOMAIN t.files :
        ReadFails(t, f) /\ (MatchesYaml(Last(f)) \/ MatchesMd(Last(f)))}

\* Whether the report holds an error or a warning about a file.
Reported(res, f) ==
    \E m \in Range(res.errors) \cup Range(res.warnings) : Len(m) >= 2 /\ m[2] = f

\* C17: a validate run without fix mode on a source tree always reaches the
\* summary, and every YAML, index or markdown file that cannot be decoded
\* is reported as an error or a warning.
C17_EverySubCheckIsolated ==
    (lastOp.op = "validate" /\ find_ai_root(chain) # NoDir /\ ~lastOp.fix)
    => /\ result.reached = "summary"
       /\ \A f \in UnreadableFiles(ai_root) : Reported(result, f)

\* The *.yaml files of a tree.
YamlFilesOf(t) == {f \in DOMAIN t.files : MatchesYaml(Last(f))}

\* How often the YAML check has warned about a file, and how often it has
\* recorded an error about it.
YamlWarnings(res, f) == Count(res.warnings, <<"YAML file contains tabs", f>>)

YamlErrors(res, f) ==
    Count(res.errors, <<"Invalid YAML", f>>) + Count(res.errors, <<"Error reading", f>>)

\* The validate run went past the YAML check.
PastYamlCheck ==
    /\ lastOp.op = "validate"
    /\ result.reached \in {"summary", "test_markdown_links"}

\* C18 as stated: for every *.yaml file the YAML check records a warning
\* and nothing else when the raw content holds a tab; otherwise an error
\* and nothing else when the file cannot be read or parsing fails; otherwise
\* nothing.
C18_TabFirstThenReadOrParse ==
    PastYamlCheck =>
        \A f \in YamlFilesOf(ai_root) :
            IF "\t" \in Range(ai_root.files[f])
            THEN YamlWarnings(result, f) = 1 /\ YamlErrors(result, f) = 0
            ELSE IF ReadFails(ai_root, f) \/ SafeLoadFails(ReadUtf8(ai_root, f))
            THEN YamlWarnings(result, f) = 0 /\ YamlErrors(result, f) = 1
            ELSE YamlWarnings(result, f) = 0 /\ YamlErrors(result, f) = 0

\* C18 as amended: for every *.yaml file the YAML check records an error
\* and nothing else when the file cannot be read; otherwise a warning and
\* nothing else when its content holds a tab; otherwise an error and
\* nothing else when parsing fails; otherwise nothing.
C18_ReadFirstThenTabThenParse ==
    PastYamlCheck =>
        \A f \in YamlFilesOf(ai_root) :
            IF ReadFails(ai_root, f)
            THEN YamlWarnings(result, f) = 0
                 /\ Count(result.errors, <<"Error reading", f>>) = 1
                 /\ Count(result.errors, <<"Invalid YAML", f>>) = 0
            ELSE IF "\t" \in Range(ReadUtf8(ai_root, f))
            THEN YamlWarnings(result, f) = 1 /\ YamlErrors(result, f) = 0
            ELSE IF SafeLoadFails(ReadUtf8(ai_root, f))
            THEN YamlWarnings(result, f) = 0
                 /\ Count(result.errors, <<"Invalid YAML", f>>) = 1
                 /\ Count(result.errors, <<"Error reading", f>>) = 0
            ELSE YamlWarnings(result, f) = 0 /\ YamlErrors(result, f) = 0

\* The agents index cannot be read and config.yaml, which the check comes
\* to after it, holds a tab: the error and the warning are both recorded.
C18_Witness ==
    /\ PastYamlCheck
    /\ ReadFails(ai_root, agents_index)
    /\ YamlErrors(result, agents_index) = 1
    /\ "\t" \in Range(ai_root.files[<<"config.yaml">>])
    /\ YamlWarnings(result, <<"config.yaml">>) = 1

\* The validate run went past the cross-reference check.
PastCrossReferences ==
    /\ lastOp.op = "validate"
    /\ result.reached \in {"summary", "test_markdown_links"}

\* What the cross-reference check has put into the report.
CrossReferenceFindings(res) ==
    Saying(res.errors, "Agent references unknown skill")
    \o Saying(res.warnings, "Could not check cross-references")

\* C19: where agents/_index.yaml or skills/_index.yaml does not exist, the
\* cross-reference check records no error and no warning, whatever the
\* other index holds.
C19_MissingIndexSkipsCheck ==
    (/\ PastCrossReferences
     /\ ~Exists(ai_root, agents_index) \/ ~Exists(ai_root, skills_index))
    => CrossReferenceFindings(result) = <<>>

\* The skills index is missing and the agents index lists a skill: the run
\* reached its summary with nothing from the cross-reference check.
C19_Witness ==
    /\ PastCrossReferences
    /\ result.reached = "summary"
    /\ ~Exists(ai_root, skills_index)
    /\ ~ReadFails(ai_root, agents_index)
    /\ agent_skill_refs(ai_root) # {}
    /\ CrossReferenceFindings(result) = <<>>


(***************************************************************************)
(* Properties of the order of the sub-checks.                              *)
(***************************************************************************)
\* What validate_cmd, with its own order, reports on a tree.
ReportAsCoded(t, fix) ==
    LET run == RunAllValidations(t, fix)
    IN  [errors |-> run.result.errors, warnings |-> run.result.warnings,
         reached |-> IF run.raised = "" THEN "summary" ELSE run.raised]

\* C13 as stated: on the same initial tree and with the same fix flag, the
\* sub-checks called in any order that reaches the summary record the same
\* multiset of errors and the same multiset of warnings as validate_cmd.
C13_AnyOrderSameReport ==
    [][ (lastOp'.op = "ordered" /\ result'.reached = "summary") =>
          \E coded \in {ReportAsCoded(ai_root, lastOp'.fix)} :
              /\ SameBag(result'.errors, coded.errors)
              /\ SameBag(result'.warnings, coded.warnings) ]_vars

\* The messages of a list that do not start with the given words.
NotSaying(msgs, words) == SelectSeq(msgs, LAMBDA m : m[1] # words)

\* C13 as amended: an order ends with an exception exactly when
\* validate_cmd does; otherwise it records the same multiset of errors and,
\* the broken-link warnings aside, the same multiset of warnings; the
\* broken-link warnings are the same too without fix mode, and in fix mode
\* where the directory check is called before the link check.
C13_SameReportButLinksAfterFix ==
    [][ lastOp'.op = "ordered" =>
          \E coded \in {ReportAsCoded(ai_root, lastOp'.fix)} :
              /\ (result'.reached = "summary") <=> (coded.reached = "summary")
              /\ result'.reached = "summary" =>
                   /\ SameBag(result'.errors, coded.errors)
                   /\ SameBag(NotSaying(result'.warnings, "Broken link in"),
                              NotSaying(coded.warnings, "Broken link in"))
                   /\ (~lastOp'.fix \/ lastOp'.dirsFirst) =>
                          SameBag(result'.warnings, coded.warnings) ]_vars

\* The sub-checks ran in fix mode in another order than validate_cmd's, the
\* link check before the directory check: the missing tools directory was
\* created, and the link to it was reported as broken.
C13_Witness ==
    /\ lastOp.op = "ordered"
    /\ lastOp.fix /\ ~lastOp.dirsFirst
    /\ result.reached = "summary"
    /\ <<"Missing required directory", <<"tools">>>> \in Range(result.errors)
    /\ <<"tools">> \in ai_root.dirs
    /\ Saying(result.warnings, "Broken link in") # <<>>


(***************************************************************************)
(* Fix mode against the plain run, and the run that follows a fix.         *)
(***************************************************************************)
\* A validate run with fix mode follows a run without it on the same tree.
FixAfterPlain ==
    /\ find_ai_root(chain) # NoDir
    /\ lastOp.op = "validate" /\ ~lastOp.fix /\ ~lastOp.changed
    /\ lastOp'.op = "validate" /\ lastOp'.fix

\* C26: on the same initial source tree a validate run with fix mode
\* records the same list of errors as a run without fix mode.
C26_FixRecordsSameErrors ==
    [][ FixAfterPlain => result'.errors = result.errors ]_vars

\* C27: after a validate run with fix mode that ran to its summary, the
\* validate run that follows it at once, with or without fix, records no
\* 'Missing required directory' error.
C27_NoMissingDirectoryAfterFix ==
    [][ (/\ lastOp.op = "validate" /\ lastOp.fix /\ result.reached = "summary"
         /\ lastOp'.op = "validate")
        => Saying(result'.errors, "Missing required directory") = <<>> ]_vars

\* A run that changed nothing ran to its summary on a tree in which
\* standards/cicd exists with none of its expected files, as only a fix
\* leaves it, and recorded no missing directory.
C27_Witness ==
    /\ lastOp.op = "validate" /\ ~lastOp.changed
    /\ result.reached = "summary"
    /\ cicd_dir \in ai_root.dirs
    /\ Len(Saying(result.warnings, "Missing CI/CD config")) = Len(cicd_configs)
    /\ Saying(result.errors, "Missing required directory") = <<>>


(***************************************************************************)
(* Properties of init.                                                     *)
(***************************************************************************)
\* C28: on a source tree made by init, for every stack value it accepts,
\* validate's required-directory check and required-file check record no
\* error.
C28_InitSatisfiesRequired ==
    (lastOp.op = "validate" /\ find_ai_root(chain) # NoDir) =>
        /\ result.reached = "summary"
        /\ Saying(result.errors, "Missing required directory") = <<>>
        /\ Saying(result.errors, "Missing required file") = <<>>

\* Validate ran to its summary on a tree that init made for terraform from
\* a package without templates.
C28_Witness ==
    /\ lastOp.op = "validate"
    /\ result.reached = "summary"
    /\ <<"standards", "terraform">> \in ai_root.dirs
    /\ <<"tools", "sync_claude.py">> \in DOMAIN ai_root.files
    /\ result.errors = <<>>

\* C29: for every stack value init accepts other than 'multi', a fragment
\* added under the standards/<stack> directory that init created is in an
\* instructions file of Profile A after the next sync.
C29_InitStackIsSynced ==
    (lastOp = SyncOp("github", FALSE) /\ exitCode = ExitOk) =>
        \A stack \in (StackTypes \ {"multi"}) \cap DOMAIN src.stacks :
            MdFragments(stack) # {} =>
                /\ WroteFile(InstructionsDir, InstructionsFileName(stack))
                /\ DocumentHoldsFragments("github", stack, TRUE)

=============================================================================
